---- MODULE Spec2Model ----
(***************************************************************************)
(* Model of the echo BitTorrent client core:                               *)
(*   - the peer manager (internal/peer/manager.go): candidate queue, dial  *)
(*     workers, admission table, per-peer reader/writer tasks, Stop;       *)
(*   - the tracker manager (internal/tracker/manager.go): one announce     *)
(*     loop per tracker, lifecycle events, backoff/interval sleeps, Stop;  *)
(*   - one peer session, the handshake, the UDP tracker client;            *)
(*   - the bencode codec (internal/bencode) and the metainfo parser        *)
(*     (internal/torrent/metainfo.go);                                     *)
(*   - the bitfield (internal/bitfield).                                   *)
(***************************************************************************)
EXTENDS Integers, Sequences, FiniteSets, TLC

(***************************************************************************)
(* Bounds of the model.                                                    *)
(***************************************************************************)
NumAddrs == 2          \* distinct remote addresses a tracker may hand out
DialWorkers == 2       \* cfg.DialWorkers (50 by default), scaled down
MaxPeers == 1          \* cfg.MaxPeers (100 by default), scaled down
QueueCap == 1          \* capacity of candidatesBuf (1001), scaled down
MaxSessions == 2       \* handshakes that may complete during one run

Addrs == 1..NumAddrs
Workers == 1..DialWorkers
SessionIds == 1..MaxSessions
NoPeer == 0

VARIABLES
    done,           \* Manager.done is closed
    candidatesBuf,  \* Manager.candidatesBuf: sequence of candidate addresses
    peers,          \* Manager.peers: address -> session id, NoPeer if absent
    sessions,       \* the Peer objects created by NewPeer so far
    workers,        \* the dial workers: position in dialPeers and locals
    mgrStop,        \* the caller of Manager.Stop: position in Stop
    ctxDone,        \* tracker Manager.Start: the caller's context is cancelled
    grpDone,        \* tracker Manager.Start: the errgroup's context is cancelled
    closed,         \* tracker Manager.closed
    left,           \* tracker Manager.left
    loops,          \* per tracker: position and locals of runAnnounceLoop
    hist,           \* per tracker: what has been sent and when (observer)
    startPc,        \* the caller of tracker Manager.Start
    stoppers,       \* the callers of tracker Manager.Stop
    swarm,          \* the peers the trackers know of
    sinks,          \* the goroutines emitPeers launched to run OnPeers
    uploaded,       \* tracker Manager.uploaded
    downloaded,     \* tracker Manager.downloaded
    updater,        \* the caller of Manager.UpdateStats: position, arguments
    statReq,        \* the request an announce loop is building from the stats
    statCalls,      \* the triples UpdateStats was called with (observer)
    pGlobalDone,    \* one peer session: the manager's done channel is closed
    pStopped,       \* one peer session: Peer.stopped is closed
    pConn,          \* one peer session: the socket
    rdPc,           \* one peer session: position of readMessages
    rdLast,         \* one peer session: outcome of the last read (observer)
    wrPc,           \* one peer session: position of writeMessages
    peerChoking,    \* one peer session: Peer.peerChoking
    peerInterested, \* one peer session: Peer.peerInterested
    hsRemote,       \* handshake: what the remote answers (pstr, hash, id, cut)
    hsPc,           \* handshake: position of NewPeer
    hsResult,       \* handshake: outcome of Handshake.Perform
    udp,            \* UDP announce: the client and its caller (below)
    benc,           \* bencode and metainfo: the caller's record (below)
    stopCalls,      \* one peer session: position of each caller of Peer.Stop
    stopOnce,       \* one peer session: Peer.stopOnce
    pQueue,         \* one peer session: Peer.requestsQueue, open or closed
    pCloses,        \* one peer session: closes made, per resource (observer)
    pieces,         \* Manager.pieces: the n the bitfield was asked for
    pieceBF,        \* Peer.pieceBF; the bitfield the calls are made on
    bfOp,           \* the last call made on the bitfield (observer)
    amChoking,      \* one peer session: Peer.amChoking
    amInterested,   \* one peer session: Peer.amInterested
    rdFrames,       \* one peer session: the last frame of each pair (observer)
    mail,           \* one peer session: the mailbox and its writer (below)
    lk              \* peer manager, lock by lock: one address (below)

peerVars == <<done, candidatesBuf, peers, sessions, workers, mgrStop>>

trackerVars == <<ctxDone, grpDone, closed, left, loops, hist, startPc,
                 stoppers, swarm, sinks>>

statsVars == <<uploaded, downloaded, updater, statReq, statCalls>>

sessVars == <<pGlobalDone, pStopped, pConn, rdPc, rdLast, wrPc, peerChoking,
              peerInterested, amChoking, amInterested, rdFrames>>

hsVars == <<hsRemote, hsPc, hsResult>>

\* The fields of the record of a UDP tracker client and of its caller.
udpCall == udp.call             \* the caller's deadline, if any
udpNow == udp.now               \* the clock
udpPc == udp.pc                 \* position of UDPTrackerClient.Announce
udpN == udp.n                   \* the attempt counter n
udpConnDeadline == udp.connDeadline  \* the deadline set on the socket
udpTTL == udp.ttl               \* UDPTrackerClient.connectionIDTTL
udpResult == udp.result         \* what Announce returned
udpObs == udp.obs               \* packets sent, error replies (observer)

udpVars == <<udp>>

\* The fields of the record of a caller of the codec, of ParseMetainfo or
\* of parsePeersField.
bencKind == benc.kind           \* where the input comes from
bencVal == benc.val             \* the value handed to Encoder.Encode
bencBytes == benc.bytes         \* the bytes handed to Decoder.Decode
bencPc == benc.pc               \* position of the caller
bencDec == benc.dec             \* what Decoder.Decode returned
bencOut == benc.out             \* the bytes of the second Encode
bencParser == benc.parser       \* what newParser returned
metainfo == benc.metainfo       \* what ParseMetainfo returned
peersResult == benc.peers       \* what parsePeersField returned

bencVars == <<benc>>

stopVars == <<stopCalls, stopOnce, pQueue, pCloses>>

bfVars == <<pieces, pieceBF, bfOp>>

\* The fields of the record of a session's mailbox and writer.
mailQueue == mail.queue         \* Peer.requestsQueue: the frames buffered
mailClosed == mail.closed       \* Peer.requestsQueue is closed
mailStopped == mail.stopped     \* Peer.stopped is closed
mailConn == mail.conn           \* the socket, open or closed
mailDone == mail.done           \* the manager's done channel is closed
mailPc == mail.pc               \* position of writeMessages
mailCur == mail.cur             \* the frame writeMessages has received
mailStopPc == mail.stopPc       \* position of the function run by stopOnce
mailNow == mail.now             \* the clock
mailLast == mail.last           \* lastKeepAliveSend
mailTick == mail.tick           \* keepAliveTicker.C holds a tick
mailNextTick == mail.nextTick   \* when the ticker fires next
mailPut == mail.put             \* frames put into the mailbox so far
mailWire == mail.wire           \* what was written to the socket (observer)
mailSaw == mail.saw             \* the writer has observed a stop signal

mailVars == <<mail>>

\* The fields of the record of the peer manager taken lock by lock.
lkDone == lk.done               \* Manager.done is closed
lkQueue == lk.queue             \* candidates in candidatesBuf
lkTab == lk.tab                 \* the address is a key of Manager.peers
lkMut == lk.mut                 \* Manager.peerMut
lkOnce == lk.once               \* stopOnce of the admitted Peer
lkCalls == lk.calls             \* position of each caller of its Peer.Stop
lkStop == lk.stop               \* position of the caller of Manager.Stop
lkWorker == lk.worker           \* position of the dial worker
lkSess == lk.sess               \* position of the session's goroutine
lkEnq == lk.enq                 \* position of the caller of Manager.Enqueue
lkLate == lk.late               \* the last Enqueue sent after admission (observer)

lkVars == <<lk>>

\* What the steps of each part leave alone.
nonPeerVars == <<trackerVars, statsVars, sessVars, hsVars, udpVars,
                   bencVars, stopVars, bfVars, mailVars, lkVars>>
nonTrackerVars == <<peerVars, statsVars, sessVars, hsVars, udpVars,
                   bencVars, stopVars, bfVars, mailVars, lkVars>>
nonStatsVars == <<peerVars, ctxDone, grpDone, closed, loops, hist, startPc,
                  stoppers, swarm, sinks, sessVars, hsVars, udpVars,
                  bencVars, stopVars, bfVars, mailVars, lkVars>>
nonSessVars == <<peerVars, trackerVars, statsVars, hsVars, udpVars,
                   bencVars, stopVars, pieces, bfOp, amChoking, amInterested,
                   mailVars, lkVars>>
nonHsVars == <<peerVars, trackerVars, statsVars, sessVars, udpVars,
                   bencVars, stopVars, bfVars, mailVars, lkVars>>
nonUdpVars == <<peerVars, trackerVars, statsVars, sessVars, hsVars,
                   bencVars, stopVars, bfVars, mailVars, lkVars>>
nonBencVars == <<peerVars, trackerVars, statsVars, sessVars, hsVars, udpVars,
                 stopVars, bfVars, mailVars, lkVars>>
nonStopVars == <<peerVars, trackerVars, statsVars, hsVars, udpVars, bencVars,
                 rdLast, peerChoking, peerInterested, amChoking,
                 amInterested, rdFrames, bfVars, mailVars, lkVars>>
nonBfVars == <<peerVars, trackerVars, statsVars, sessVars, hsVars, udpVars,
               bencVars, stopVars, mailVars, lkVars>>
nonMailVars == <<peerVars, trackerVars, statsVars, sessVars, hsVars, udpVars,
                 bencVars, stopVars, bfVars, lkVars>>
nonLkVars == <<peerVars, trackerVars, statsVars, sessVars, hsVars, udpVars,
               bencVars, stopVars, bfVars, mailVars>>

vars == <<peerVars, trackerVars, statsVars, sessVars, hsVars, udpVars,
         bencVars, stopVars, bfVars, mailVars, lkVars>>

(***************************************************************************)
(* Peer manager                                                            *)
(***************************************************************************)

\* NewPeer's result: a session with an open socket and no task running.
NewSession(a) ==
    [addr |-> a, conn |-> "open", stopped |-> FALSE,
     reader |-> "none", writer |-> "none", run |-> "none"]

\* Peer.Stop: the stopOnce body closes the stop channel, the socket and the
\* mailbox; any later call does nothing.
PeerStop(ss, s) ==
    IF ss[s].stopped THEN ss
    ELSE [ss EXCEPT ![s].stopped = TRUE, ![s].conn = "closed"]

hasPeer(a) == peers[a] # NoPeer

countPeers == Cardinality({a \in Addrs : peers[a] # NoPeer})

PeerInit ==
    /\ done = FALSE
    /\ candidatesBuf = <<>>
    /\ peers = [a \in Addrs |-> NoPeer]
    /\ sessions = <<>>
    /\ workers = [w \in Workers |-> [pc |-> "select", cand |-> 0]]
    /\ mgrStop = "idle"

\* Manager.Enqueue for one candidate of the list: skip an address that is
\* in the table; else the select: return on done, send when there is room,
\* drop (default) when neither is ready.
Enqueue(a) ==
    /\ ~hasPeer(a)
    /\ \/ /\ done
          /\ UNCHANGED candidatesBuf
       \/ /\ Len(candidatesBuf) < QueueCap
          /\ candidatesBuf' = Append(candidatesBuf, a)
       \/ /\ ~done
          /\ Len(candidatesBuf) >= QueueCap
          /\ UNCHANGED candidatesBuf
    /\ UNCHANGED <<done, peers, sessions, workers, mgrStop>>
    /\ UNCHANGED nonPeerVars

\* dialPeers, the select and the capacity check: leave when done is closed,
\* or take a candidate and drop it when the table is full, else go on to
\* dial it.
WorkerSelect(w) ==
    /\ workers[w].pc = "select"
    /\ \/ /\ done
          /\ workers' = [workers EXCEPT ![w].pc = "exited"]
          /\ UNCHANGED candidatesBuf
       \/ /\ candidatesBuf # <<>>
          /\ candidatesBuf' = Tail(candidatesBuf)
          /\ workers' = IF countPeers >= MaxPeers
                        THEN workers
                        ELSE [workers EXCEPT ![w].pc = "dial",
                                             ![w].cand = Head(candidatesBuf)]
    /\ UNCHANGED <<done, peers, sessions, mgrStop>>
    /\ UNCHANGED nonPeerVars

\* NewPeer fails (dial or handshake error): the candidate is dropped.
WorkerDialFails(w) ==
    /\ workers[w].pc = "dial"
    /\ workers' = [workers EXCEPT ![w] = [pc |-> "select", cand |-> 0]]
    /\ UNCHANGED <<done, candidatesBuf, peers, sessions, mgrStop>>
    /\ UNCHANGED nonPeerVars

\* admitPeer with the membership check left out: the entry is overwritten.
admitPeerNoCheck(tbl, s, a) ==
    [ok |-> TRUE, peers |-> [tbl EXCEPT ![a] = s]]

\* admitPeer: under the write lock, refuse an address that is already a key,
\* else insert the session.
admitPeer(tbl, s, a) ==
    IF tbl[a] # NoPeer
    THEN [ok |-> FALSE, peers |-> tbl]
    ELSE [ok |-> TRUE, peers |-> [tbl EXCEPT ![a] = s]]

\* NewPeer succeeds: the handshake with the candidate's address completed
\* and a session exists; admitPeer decides; a refused session is stopped
\* (its connection closed) and never started, an admitted one gets the
\* goroutine that runs Peer.Start and then removePeer.
WorkerDialAdmits(w) ==
    /\ workers[w].pc = "dial"
    /\ Len(sessions) < MaxSessions
    /\ LET a == workers[w].cand
           s == Len(sessions) + 1
           created == Append(sessions, NewSession(a))
           r == admitPeer(peers, s, a)
       IN /\ peers' = r.peers
          /\ sessions' = IF r.ok
                         THEN [created EXCEPT ![s].run = "spawned"]
                         ELSE PeerStop(created, s)
    /\ workers' = [workers EXCEPT ![w] = [pc |-> "select", cand |-> 0]]
    /\ UNCHANGED <<done, candidatesBuf, mgrStop>>
    /\ UNCHANGED nonPeerVars

\* Peer.Start: emit the started event and launch the reader and the writer.
SessionStart(s) ==
    /\ s \in DOMAIN sessions
    /\ sessions[s].run = "spawned"
    /\ sessions' = [sessions EXCEPT ![s].run = "waiting",
                                    ![s].reader = "running",
                                    ![s].writer = "running"]
    /\ UNCHANGED <<done, candidatesBuf, peers, workers, mgrStop>>
    /\ UNCHANGED nonPeerVars

\* readMessages returns: global done or the stop signal is observed, or the
\* read fails (remote close, socket closed); the deferred Stop runs.
ReaderExit(s) ==
    /\ s \in DOMAIN sessions
    /\ sessions[s].reader = "running"
    /\ {cause \in {"globalDone", "stopped", "readError"} :
            \/ cause = "globalDone" /\ done
            \/ cause = "stopped" /\ sessions[s].stopped
            \/ cause = "readError"} # {}
    /\ sessions' = [PeerStop(sessions, s) EXCEPT ![s].reader = "exited"]
    /\ UNCHANGED <<done, candidatesBuf, peers, workers, mgrStop>>
    /\ UNCHANGED nonPeerVars

\* writeMessages returns: global done, the stop signal or the closed mailbox
\* is observed, or a write fails; the deferred Stop runs.
WriterExit(s) ==
    /\ s \in DOMAIN sessions
    /\ sessions[s].writer = "running"
    /\ {cause \in {"globalDone", "stopped", "writeError"} :
            \/ cause = "globalDone" /\ done
            \/ cause = "stopped" /\ sessions[s].stopped
            \/ cause = "writeError"} # {}
    /\ sessions' = [PeerStop(sessions, s) EXCEPT ![s].writer = "exited"]
    /\ UNCHANGED <<done, candidatesBuf, peers, workers, mgrStop>>
    /\ UNCHANGED nonPeerVars

\* removePeer: under the write lock, look the address up and stop the
\* session found; the key is left in the map.
removePeer(tbl, ss, a) ==
    IF tbl[a] = NoPeer
    THEN [peers |-> tbl, sessions |-> ss]
    ELSE [peers |-> tbl, sessions |-> PeerStop(ss, tbl[a])]

\* The session goroutine after Peer.Start returned (both tasks have exited):
\* the call of removePeer.
SessionRemove(s) ==
    /\ s \in DOMAIN sessions
    /\ sessions[s].run = "waiting"
    /\ sessions[s].reader = "exited"
    /\ sessions[s].writer = "exited"
    /\ LET r == removePeer(peers, sessions, sessions[s].addr)
       IN /\ peers' = r.peers
          /\ sessions' = [r.sessions EXCEPT ![s].run = "done"]
    /\ UNCHANGED <<done, candidatesBuf, workers, mgrStop>>
    /\ UNCHANGED nonPeerVars

\* Manager.Stop: close done unless it is closed already.
StopClose ==
    /\ mgrStop = "idle"
    /\ done' = TRUE
    /\ mgrStop' = "waitWorkers"
    /\ UNCHANGED <<candidatesBuf, peers, sessions, workers>>
    /\ UNCHANGED nonPeerVars

\* Manager.Stop: dialWorkers.Wait() returns once every worker has left.
StopWait ==
    /\ mgrStop = "waitWorkers"
    /\ \A w \in Workers : workers[w].pc = "exited"
    /\ mgrStop' = "stopPeers"
    /\ UNCHANGED <<done, candidatesBuf, peers, sessions, workers>>
    /\ UNCHANGED nonPeerVars

RECURSIVE StopAll(_, _)
StopAll(ss, ids) ==
    IF ids = {} THEN ss
    ELSE LET s == CHOOSE x \in ids : TRUE
         IN StopAll(PeerStop(ss, s), ids \ {s})

\* Manager.Stop: under the read lock, Stop every session of the table, then
\* return.
StopPeers ==
    /\ mgrStop = "stopPeers"
    /\ sessions' = StopAll(sessions,
                           {peers[a] : a \in {b \in Addrs : peers[b] # NoPeer}})
    /\ mgrStop' = "returned"
    /\ UNCHANGED <<done, candidatesBuf, peers, workers>>
    /\ UNCHANGED nonPeerVars

PeerNext ==
    \/ \E a \in Addrs : Enqueue(a)
    \/ \E w \in Workers : WorkerSelect(w)
    \/ \E w \in Workers : WorkerDialFails(w)
    \/ \E w \in Workers : WorkerDialAdmits(w)
    \/ \E s \in SessionIds : SessionStart(s)
    \/ \E s \in SessionIds : ReaderExit(s)
    \/ \E s \in SessionIds : WriterExit(s)
    \/ \E s \in SessionIds : SessionRemove(s)
    \/ StopClose
    \/ StopWait
    \/ StopPeers

(***************************************************************************)
(* Peer manager, lock by lock                                              *)
(***************************************************************************)

\* The manager as seen from one address: one dial worker, the goroutine of
\* the session admitted for the address (removePeer never deletes the key,
\* so there is one at most), one caller of Enqueue and one of Manager.Stop.
\* peerMut is a sync.RWMutex: a pending Lock keeps new readers out.

StopCallers3 == {"reader", "writer", "removePeer", "managerStop"}

NoMut == [r |-> 0, w |-> FALSE, wait |-> {}]

CanRLock(m) == ~m.w /\ m.wait = {}
RLock(m) == [m EXCEPT !.r = @ + 1]
RUnlock(m) == [m EXCEPT !.r = @ - 1]
LockRequest(m, g) == [m EXCEPT !.wait = @ \cup {g}]
CanLock(m, g) == g \in m.wait /\ m.r = 0 /\ ~m.w
Lock(m, g) == [m EXCEPT !.w = TRUE, !.wait = @ \ {g}]
UnlockNever(m) == m
Unlock(m) == [m EXCEPT !.w = FALSE]

\* The select of Enqueue can send: the queue has a free slot; and a queue
\* that takes one candidate more than its capacity.
canSendOverfull(n) == n <= QueueCap
canSend(n) == n < QueueCap

\* NewManager and Manager.Start.
LkInit ==
    lk = [done |-> FALSE, queue |-> 0, tab |-> FALSE, mut |-> NoMut,
          once |-> "fresh", calls |-> [c \in StopCallers3 |-> "no"],
          stop |-> "idle", worker |-> [w \in Workers |-> "select"],
          sess |-> "none", enq |-> "idle", late |-> FALSE]

\* Manager.Enqueue is called with the address.
LkEnqCall ==
    /\ lkEnq = "idle"
    /\ lk' = [lk EXCEPT !.enq = "hasPeer", !.late = FALSE]
    /\ UNCHANGED nonLkVars

\* hasPeer: under the read lock; an address in the table is skipped.
LkEnqHasPeer ==
    /\ lkEnq = "hasPeer"
    /\ CanRLock(lkMut)
    /\ lk' = [lk EXCEPT !.enq = IF lkTab THEN "idle" ELSE "select"]
    /\ UNCHANGED nonLkVars

\* The select of Enqueue: return on done, send when there is room, drop
\* (default) when neither is ready.
LkEnqSelect ==
    /\ lkEnq = "select"
    /\ \/ /\ lkDone
          /\ lk' = [lk EXCEPT !.enq = "idle"]
       \/ /\ canSend(lkQueue)
          /\ lk' = [lk EXCEPT !.enq = "idle", !.queue = @ + 1,
                              !.late = @ \/ lkTab]
       \/ /\ ~lkDone /\ ~canSend(lkQueue)
          /\ lk' = [lk EXCEPT !.enq = "idle"]
    /\ UNCHANGED nonLkVars

\* dialPeers, the select: done is closed.
LkWorkerExit(w) ==
    /\ lkWorker[w] = "select"
    /\ lkDone
    /\ lk' = [lk EXCEPT !.worker[w] = "exited"]
    /\ UNCHANGED nonLkVars

\* dialPeers, the select: a candidate is received.
LkWorkerTake(w) ==
    /\ lkWorker[w] = "select"
    /\ lkQueue > 0
    /\ lk' = [lk EXCEPT !.worker[w] = "countPeers", !.queue = @ - 1]
    /\ UNCHANGED nonLkVars

\* countPeers, under the read lock, and the capacity check.
LkWorkerCount(w) ==
    /\ lkWorker[w] = "countPeers"
    /\ CanRLock(lkMut)
    /\ lk' = [lk EXCEPT !.worker[w] =
                  IF (IF lkTab THEN 1 ELSE 0) >= MaxPeers THEN "select"
                  ELSE "dial"]
    /\ UNCHANGED nonLkVars

\* NewPeer returns: an error, or a Peer, with which admitPeer is called.
LkWorkerDial(w, ok) ==
    /\ lkWorker[w] = "dial"
    /\ lk' = IF ok
             THEN [lk EXCEPT !.worker[w] = "admitPeer",
                             !.mut = LockRequest(@, <<"admitPeer", w>>)]
             ELSE [lk EXCEPT !.worker[w] = "select"]
    /\ UNCHANGED nonLkVars

\* admitPeer, under the write lock: an address in the table is refused,
\* and the worker calls Stop on the refused Peer, whose stopOnce nobody else
\* calls and which takes no lock; an admitted Peer gets its goroutine.
LkWorkerAdmit(w) ==
    /\ lkWorker[w] = "admitPeer"
    /\ CanLock(lkMut, <<"admitPeer", w>>)
    /\ lk' = IF lkTab
             THEN [lk EXCEPT !.mut = Unlock(Lock(@, <<"admitPeer", w>>)),
                             !.worker[w] = "select"]
             ELSE [lk EXCEPT !.mut = Unlock(Lock(@, <<"admitPeer", w>>)),
                             !.tab = TRUE,
                             !.sess = "spawned",
                             !.worker[w] = "select"]
    /\ UNCHANGED nonLkVars

\* Peer.Start: emitStarted, and the reader and the writer are launched.
LkSessStart ==
    /\ lkSess = "spawned"
    /\ lk' = [lk EXCEPT !.sess = "running"]
    /\ UNCHANGED nonLkVars

TaskRunning(t) == lkSess = "running" /\ lkCalls[t] = "no"

\* The Peer is being stopped, or the manager is: a task that waits in a
\* select sees the closed channel, and a read or a write ends with an error
\* at its deadline at the latest.
StopSignal == lkDone \/ lkOnce # "fresh"

\* readMessages or writeMessages returns, on a stop signal or on an error
\* of the socket at any time: the deferred Peer.Stop is called.
LkTaskReturns(t) ==
    /\ TaskRunning(t)
    /\ lk' = [lk EXCEPT !.calls[t] = "call"]
    /\ UNCHANGED nonLkVars

\* Peer.Stop, stopOnce.Do: the first caller runs the function, a caller
\* that finds it running waits, a later caller returns at once.
LkStopDo(c) ==
    /\ lkCalls[c] = "call"
    /\ lkOnce # "running"
    /\ lk' = IF lkOnce = "fresh"
             THEN [lk EXCEPT !.once = "running", !.calls[c] = "body"]
             ELSE [lk EXCEPT !.calls[c] = "returned"]
    /\ UNCHANGED nonLkVars

\* The function run by stopOnce: the three closes and emitStopped, which
\* take no lock of the manager.
LkStopBody(c) ==
    /\ lkCalls[c] = "body"
    /\ lk' = [lk EXCEPT !.once = "done", !.calls[c] = "returned"]
    /\ UNCHANGED nonLkVars

\* wg.Wait() of Peer.Start returns; removePeer asks for the write lock.
LkRemoveRequest ==
    /\ lkSess = "running"
    /\ lkCalls["reader"] = "returned"
    /\ lkCalls["writer"] = "returned"
    /\ lk' = [lk EXCEPT !.sess = "removePeer",
                        !.mut = LockRequest(@, <<"removePeer", 0>>)]
    /\ UNCHANGED nonLkVars

\* removePeer gets the write lock, finds the Peer and calls its Stop.
LkRemoveLock ==
    /\ lkSess = "removePeer"
    /\ CanLock(lkMut, <<"removePeer", 0>>)
    /\ lk' = [lk EXCEPT !.mut = Lock(@, <<"removePeer", 0>>),
                        !.sess = "removeHolds",
                        !.calls["removePeer"] = "call"]
    /\ UNCHANGED nonLkVars

\* removePeer: Peer.Stop has returned, the deferred Unlock runs.
LkRemoveUnlock ==
    /\ lkSess = "removeHolds"
    /\ lkCalls["removePeer"] = "returned"
    /\ lk' = [lk EXCEPT !.mut = Unlock(@), !.sess = "done"]
    /\ UNCHANGED nonLkVars

\* Manager.Stop: close done.
LkStopClose ==
    /\ lkStop = "idle"
    /\ lk' = [lk EXCEPT !.done = TRUE, !.stop = "waitWorkers"]
    /\ UNCHANGED nonLkVars

\* Manager.Stop: dialWorkers.Wait() returns.
LkStopWait ==
    /\ lkStop = "waitWorkers"
    /\ \A w \in Workers : lkWorker[w] = "exited"
    /\ lk' = [lk EXCEPT !.stop = "rlock"]
    /\ UNCHANGED nonLkVars

\* Manager.Stop gets the read lock and calls Stop on the Peer of the
\* table, if there is one.
LkStopRLock ==
    /\ lkStop = "rlock"
    /\ CanRLock(lkMut)
    /\ lk' = [lk EXCEPT !.mut = RLock(@),
                        !.stop = "holds",
                        !.calls["managerStop"] =
                            IF lkTab THEN "call" ELSE "returned"]
    /\ UNCHANGED nonLkVars

\* Manager.Stop: the loop is over, RUnlock.
LkStopRUnlock ==
    /\ lkStop = "holds"
    /\ lkCalls["managerStop"] = "returned"
    /\ lk' = [lk EXCEPT !.mut = RUnlock(@), !.stop = "returned"]
    /\ UNCHANGED nonLkVars

LkTasks == {"reader", "writer"}

LkNext ==
    \/ LkEnqCall
    \/ LkEnqHasPeer
    \/ LkEnqSelect
    \/ \E w \in Workers : LkWorkerExit(w)
    \/ \E w \in Workers : LkWorkerTake(w)
    \/ \E w \in Workers : LkWorkerCount(w)
    \/ \E w \in Workers, ok \in BOOLEAN : LkWorkerDial(w, ok)
    \/ \E w \in Workers : LkWorkerAdmit(w)
    \/ LkSessStart
    \/ \E t \in LkTasks : LkTaskReturns(t)
    \/ \E c \in StopCallers3 : LkStopDo(c)
    \/ \E c \in StopCallers3 : LkStopBody(c)
    \/ LkRemoveRequest
    \/ LkRemoveLock
    \/ LkRemoveUnlock
    \/ LkStopClose
    \/ LkStopWait
    \/ LkStopRLock
    \/ LkStopRUnlock

\* The steps a dial worker takes outside its select, and those of the
\* goroutine of the session, of Manager.Stop, of Enqueue and of a call of
\* Peer.Stop: each is at one place of its code at a time.
LkWorkerRuns(w) ==
    \/ LkWorkerCount(w)
    \/ \E ok \in BOOLEAN : LkWorkerDial(w, ok)
    \/ LkWorkerAdmit(w)
LkSessRuns == LkSessStart \/ LkRemoveRequest \/ LkRemoveLock \/ LkRemoveUnlock
LkStopRuns == LkStopWait \/ LkStopRLock \/ LkStopRUnlock
LkEnqRuns == LkEnqHasPeer \/ LkEnqSelect
LkPeerStopRuns(c) == LkStopDo(c) \/ LkStopBody(c)

\* Every goroutine is scheduled, dials and event emission return, a task
\* of the session observes a stop signal, and a select that chooses at
\* random among its ready channels does not pass over done for ever.
LkFairness ==
    /\ WF_vars(LkEnqRuns)
    /\ \A w \in Workers : SF_vars(LkWorkerExit(w)) /\ WF_vars(LkWorkerRuns(w))
    /\ WF_vars(LkSessRuns)
    /\ \A t \in LkTasks : WF_vars(StopSignal /\ LkTaskReturns(t))
    /\ \A c \in StopCallers3 : WF_vars(LkPeerStopRuns(c))
    /\ WF_vars(LkStopRuns)

(***************************************************************************)
(* The bitfield                                                            *)
(***************************************************************************)

ByteMod == 256         \* a byte, and every sum of bytes, is below 256
ByteBits == 8          \* bits of a byte: index/8, index%8

MaxPieces == 9         \* largest number of bits (pieces) of a bitfield

RECURSIVE Pow2(_)
Pow2(n) == IF n = 0 THEN 1 ELSE 2 * Pow2(n - 1)

\* The sequences of at most n elements of S.
RECURSIVE SeqsUpTo(_, _)
SeqsUpTo(S, n) ==
    IF n = 0 THEN {<<>>}
    ELSE SeqsUpTo(S, n - 1)
            \cup {Append(s, x) : s \in SeqsUpTo(S, n - 1), x \in S}

\* Go's / and % on integers: the quotient is truncated toward zero and the
\* remainder has the sign of the dividend.
QuoT(a, b) == IF a >= 0 THEN a \div b ELSE -((-a) \div b)
RemT(a, b) == a - b * QuoT(a, b)

\* b >> k & 1 on a byte.
BitAt(b, k) == (b \div Pow2(k)) % 2

\* byte(1) << k: the bits shifted out of the byte are lost.
Shl1(k) == Pow2(k) % ByteMod

\* a | b and a &^ b on bytes, bit by bit.
RECURSIVE Or8(_, _, _)
Or8(a, b, k) ==
    IF k = ByteBits THEN 0
    ELSE (IF BitAt(a, k) = 1 \/ BitAt(b, k) = 1 THEN Pow2(k) ELSE 0)
            + Or8(a, b, k + 1)

RECURSIVE AndNot8(_, _, _)
AndNot8(a, b, k) ==
    IF k = ByteBits THEN 0
    ELSE (IF BitAt(a, k) = 1 /\ BitAt(b, k) = 0 THEN Pow2(k) ELSE 0)
            + AndNot8(a, b, k + 1)

\* bits.OnesCount8.
RECURSIVE OnesCount8(_, _)
OnesCount8(b, k) ==
    IF k = ByteBits THEN 0 ELSE BitAt(b, k) + OnesCount8(b, k + 1)

\* bitfield.New(n): (n + 7) / 8 zeroed bytes, none when that is negative.
New(n) ==
    LET size == QuoT(n + 7, ByteBits)
    IN [i \in 1..(IF size < 0 THEN 0 ELSE size) |-> 0]

\* bitfield.FromBytes(b): a copy of b, whatever its length.
FromBytes(b) == [i \in 1..Len(b) |-> b[i]]

\* Bitfield.HasBit(index).
HasBit(bf, index) ==
    LET byteIndex == QuoT(index, ByteBits)
        offset == RemT(index, ByteBits)
    IN IF byteIndex < 0 \/ byteIndex >= Len(bf) THEN FALSE
       ELSE BitAt(bf[byteIndex + 1], 7 - offset) # 0

\* SetBit counting the bits of a byte from its least significant end.
SetBitLsbFirst(bf, index) ==
    LET byteIndex == QuoT(index, ByteBits)
        offset == RemT(index, ByteBits)
    IN IF byteIndex < 0 \/ byteIndex >= Len(bf) \/ offset < 0 THEN bf
       ELSE [bf EXCEPT ![byteIndex + 1] = Or8(@, Shl1(offset), 0)]

\* Bitfield.SetBit(index).
SetBit(bf, index) ==
    LET byteIndex == QuoT(index, ByteBits)
        offset == RemT(index, ByteBits)
    IN IF byteIndex < 0 \/ byteIndex >= Len(bf) THEN bf
       ELSE [bf EXCEPT ![byteIndex + 1] = Or8(@, Shl1(7 - offset), 0)]

\* Bitfield.ClearBit(index).
ClearBit(bf, index) ==
    LET byteIndex == QuoT(index, ByteBits)
        offset == RemT(index, ByteBits)
    IN IF byteIndex < 0 \/ byteIndex >= Len(bf) THEN bf
       ELSE [bf EXCEPT ![byteIndex + 1] = AndNot8(@, Shl1(7 - offset), 0)]

\* Bitfield.Count().
RECURSIVE Count(_)
Count(bf) ==
    IF bf = <<>> THEN 0 ELSE OnesCount8(Head(bf), 0) + Count(Tail(bf))

\* Bitfield.Len().
BfLen(bf) == Len(bf) * ByteBits

\* The indices the calls are made with: the first and the last bit of the
\* n asked for, the first bit beyond them, the last bit of the storage, the
\* first index beyond the storage, and negative indices.
BfIndexes(n, bf) == {-ByteBits, -1, 0, n - 1, n, BfLen(bf) - 1, BfLen(bf)}

\* A bitfield fresh from New(n), for every n.
BfInit ==
    /\ pieces \in 0..MaxPieces
    /\ pieceBF = New(pieces)
    /\ bfOp = [op |-> "none", index |-> 0]

BfSetBit(i) ==
    /\ pieceBF' = SetBit(pieceBF, i)
    /\ bfOp' = [op |-> "set", index |-> i]
    /\ UNCHANGED pieces
    /\ UNCHANGED nonBfVars

BfClearBit(i) ==
    /\ pieceBF' = ClearBit(pieceBF, i)
    /\ bfOp' = [op |-> "clear", index |-> i]
    /\ UNCHANGED pieces
    /\ UNCHANGED nonBfVars

BfNext ==
    \/ \E i \in BfIndexes(pieces, pieceBF) : BfSetBit(i)
    \/ \E i \in BfIndexes(pieces, pieceBF) : BfClearBit(i)

(***************************************************************************)
(* One peer session, read by read                                          *)
(***************************************************************************)

\* The wire messages readMessages tells apart.
MsgChoke == 0
MsgUnchoke == 1
MsgInterested == 2
MsgNotInterested == 3
MsgHave == 4
MsgBitfield == 5
MsgPiece == 7
MessageIDs ==
    {MsgChoke, MsgUnchoke, MsgInterested, MsgNotInterested, MsgHave,
     MsgBitfield, MsgPiece}

MaxPayload == 2        \* longest payload of a Bitfield frame

\* The payloads the remote sends with a frame of each id: any bytes with a
\* Bitfield; with a Have, the four bytes of an index (of the first piece,
\* of the last one, of one beyond) or a single byte; none otherwise.
HaveIndexes == {0, pieces - 1, pieces}
Payloads(id) ==
    IF id = MsgBitfield THEN SeqsUpTo({0, 129}, MaxPayload)
    ELSE IF id = MsgHave
    THEN {<<0, 0, 0, i>> : i \in HaveIndexes} \cup {<<0>>}
    ELSE {<<>>}

\* Message.ParseHave: the index MessageHave wrote, four bytes big-endian.
ParseHave(payload) ==
    IF Len(payload) # 4 THEN [ok |-> FALSE, index |-> 0]
    ELSE [ok |-> TRUE,
          index |-> ((payload[1] * ByteMod + payload[2]) * ByteMod
                        + payload[3]) * ByteMod + payload[4]]

\* A flag that a frame of one id of a pair sets and never clears.
switchFlagNoClear(id, setId, clearId, flag) ==
    IF id = setId THEN TRUE ELSE flag

\* The switch on message.ID, for the flag a pair of ids sets and clears.
switchFlag(id, setId, clearId, flag) ==
    IF id = setId THEN TRUE ELSE IF id = clearId THEN FALSE ELSE flag

\* The switch on message.ID, for the remote bitfield.
switchBitfield(id, payload, bf) ==
    IF id = MsgBitfield THEN FromBytes(payload)
    ELSE IF id = MsgHave /\ ParseHave(payload).ok
    THEN SetBit(bf, ParseHave(payload).index)
    ELSE bf

\* The state after NewPeer and Peer.Start: the socket is open, the flags
\* have their initial values, the reader and the writer are at the top of
\* their loops.
SessInit ==
    /\ pGlobalDone = FALSE
    /\ pStopped = FALSE
    /\ pConn = "open"
    /\ rdPc = "select"
    /\ rdLast = "none"
    /\ wrPc = "select"
    /\ peerChoking = TRUE
    /\ peerInterested = FALSE
    /\ amChoking = TRUE
    /\ amInterested = FALSE
    /\ rdFrames = [choke |-> "none", interest |-> "none"]

\* NewPeer's bitfield.New(m.pieces), for every piece count.
SessBfInit ==
    /\ pieces \in 1..MaxPieces
    /\ pieceBF = New(pieces)
    /\ bfOp = [op |-> "none", index |-> 0]

\* Manager.Stop closes the done channel the session was started with.
SessGlobalDone ==
    /\ ~pGlobalDone
    /\ pGlobalDone' = TRUE
    /\ UNCHANGED <<pStopped, pConn, rdPc, rdLast, wrPc, peerChoking,
                   peerInterested>>
    /\ UNCHANGED <<rdFrames, pieceBF>>
    /\ UNCHANGED nonSessVars

\* Peer.Stop called from outside the session's tasks (Manager.Stop,
\* removePeer): the stopOnce body closes the stop channel and the socket.
SessStop ==
    /\ ~pStopped
    /\ pStopped' = TRUE
    /\ pConn' = "closed"
    /\ UNCHANGED <<pGlobalDone, rdPc, rdLast, wrPc, peerChoking,
                   peerInterested>>
    /\ UNCHANGED <<rdFrames, pieceBF>>
    /\ UNCHANGED nonSessVars

\* readMessages, the select at the top of the loop: return when done or the
\* stop channel is closed (the deferred Stop runs), else go on to read.
ReaderSelect ==
    /\ rdPc = "select"
    /\ IF pGlobalDone \/ pStopped
       THEN /\ rdPc' = "exited"
            /\ pStopped' = TRUE
            /\ pConn' = "closed"
       ELSE /\ rdPc' = "read"
            /\ UNCHANGED <<pStopped, pConn>>
    /\ UNCHANGED <<pGlobalDone, rdLast, wrPc, peerChoking, peerInterested>>
    /\ UNCHANGED <<rdFrames, pieceBF>>
    /\ UNCHANGED nonSessVars

\* readMessage fails with a timeout: nothing arrived within ReadTimeout.
\* The reader logs "peer idle timeout" and continues with the loop.
ReaderReadTimeout ==
    /\ rdPc = "read"
    /\ pConn = "open"
    /\ rdPc' = "select"
    /\ rdLast' = "timeout"
    /\ UNCHANGED <<pGlobalDone, pStopped, pConn, wrPc, peerChoking,
                   peerInterested>>
    /\ UNCHANGED <<rdFrames, pieceBF>>
    /\ UNCHANGED nonSessVars

\* readMessage fails with another error (the remote closed, the socket was
\* closed by Stop, a truncated frame): the reader returns and the deferred
\* Stop runs.
ReaderReadError ==
    /\ rdPc = "read"
    /\ rdPc' = "exited"
    /\ rdLast' = "error"
    /\ pStopped' = TRUE
    /\ pConn' = "closed"
    /\ UNCHANGED <<pGlobalDone, wrPc, peerChoking, peerInterested>>
    /\ UNCHANGED <<rdFrames, pieceBF>>
    /\ UNCHANGED nonSessVars

\* readMessage returns a keep-alive (nil message): the reader continues.
ReaderReadKeepAlive ==
    /\ rdPc = "read"
    /\ pConn = "open"
    /\ rdPc' = "select"
    /\ rdLast' = "keepalive"
    /\ UNCHANGED <<pGlobalDone, pStopped, pConn, wrPc, peerChoking,
                   peerInterested>>
    /\ UNCHANGED <<rdFrames, pieceBF>>
    /\ UNCHANGED nonSessVars

\* readMessage returns a message: the switch on its id updates the flags.
ReaderReadMessage(id, payload) ==
    /\ rdPc = "read"
    /\ pConn = "open"
    /\ rdPc' = "select"
    /\ rdLast' = "message"
    /\ peerChoking' = switchFlag(id, MsgChoke, MsgUnchoke, peerChoking)
    /\ peerInterested' =
          switchFlag(id, MsgInterested, MsgNotInterested, peerInterested)
    /\ pieceBF' = switchBitfield(id, payload, pieceBF)
    /\ rdFrames' =
          [choke |-> IF id = MsgChoke THEN "choke"
                     ELSE IF id = MsgUnchoke THEN "unchoke"
                     ELSE rdFrames.choke,
           interest |-> IF id = MsgInterested THEN "interested"
                        ELSE IF id = MsgNotInterested THEN "notInterested"
                        ELSE rdFrames.interest]
    /\ UNCHANGED <<pGlobalDone, pStopped, pConn, wrPc>>
    /\ UNCHANGED nonSessVars

\* writeMessages returns: done, the stop channel or the closed mailbox is
\* observed, or a write fails; the deferred Stop runs.
WriterReturns ==
    /\ wrPc = "select"
    /\ \E cause \in {"globalDone", "stopped", "writeError"} :
          \/ cause = "globalDone" /\ pGlobalDone
          \/ cause = "stopped" /\ pStopped
          \/ cause = "writeError"
    /\ wrPc' = "exited"
    /\ pStopped' = TRUE
    /\ pConn' = "closed"
    /\ UNCHANGED <<pGlobalDone, rdPc, rdLast, peerChoking, peerInterested>>
    /\ UNCHANGED <<rdFrames, pieceBF>>
    /\ UNCHANGED nonSessVars

SessNext ==
    \/ SessGlobalDone
    \/ SessStop
    \/ ReaderSelect
    \/ ReaderReadTimeout
    \/ ReaderReadError
    \/ ReaderReadKeepAlive
    \/ \E id \in MessageIDs : \E payload \in Payloads(id) :
          ReaderReadMessage(id, payload)
    \/ WriterReturns

(***************************************************************************)
(* One peer session, stop by stop                                          *)
(***************************************************************************)

\* The callers of Peer.Stop: the deferred calls of the two tasks, removePeer
\* and Manager.Stop.
StopCallers4 == {"reader", "writer", "removePeer", "managerStop"}

NoCloses == [stopped |-> 0, conn |-> 0, queue |-> 0]

\* The state after NewPeer and Peer.Start, with nobody in Peer.Stop yet.
StopInit ==
    /\ stopCalls = [c \in StopCallers4 |-> "idle"]
    /\ stopOnce = "fresh"
    /\ pQueue = "open"
    /\ pCloses = NoCloses

\* removePeer (after Peer.Start returned, that is after both tasks exited)
\* or Manager.Stop (after it closed done) calls Peer.Stop.
StopCall(c) ==
    /\ c \in {"removePeer", "managerStop"}
    /\ stopCalls[c] = "idle"
    /\ c = "removePeer" => (rdPc = "exited" /\ wrPc = "exited")
    /\ c = "managerStop" => pGlobalDone
    /\ stopCalls' = [stopCalls EXCEPT ![c] = "once"]
    /\ UNCHANGED <<stopOnce, pQueue, pCloses, pGlobalDone, pStopped, pConn,
                   rdPc, wrPc>>
    /\ UNCHANGED nonStopVars

\* Peer.Stop without the Once: every caller runs the body.
OnceDoNone(c) ==
    /\ stopCalls[c] = "once"
    /\ stopCalls' = [stopCalls EXCEPT ![c] = "closeStopped"]
    /\ stopOnce' = "running"
    /\ UNCHANGED <<pQueue, pCloses, pGlobalDone, pStopped, pConn, rdPc, wrPc>>
    /\ UNCHANGED nonStopVars

\* p.stopOnce.Do: the first caller runs the body, a caller arriving while
\* the body runs waits for it to end, a later caller returns at once.
OnceDo(c) ==
    /\ stopCalls[c] = "once"
    /\ stopOnce # "running"
    /\ IF stopOnce = "fresh"
       THEN /\ stopCalls' = [stopCalls EXCEPT ![c] = "closeStopped"]
            /\ stopOnce' = "running"
       ELSE /\ stopCalls' = [stopCalls EXCEPT ![c] = "returned"]
            /\ UNCHANGED stopOnce
    /\ UNCHANGED <<pQueue, pCloses, pGlobalDone, pStopped, pConn, rdPc, wrPc>>
    /\ UNCHANGED nonStopVars

\* The body of Stop: close(p.stopped).
StopCloseStopped(c) ==
    /\ stopCalls[c] = "closeStopped"
    /\ pStopped' = TRUE
    /\ pCloses' = [pCloses EXCEPT !.stopped = @ + 1]
    /\ stopCalls' = [stopCalls EXCEPT ![c] = "closeConn"]
    /\ UNCHANGED <<stopOnce, pQueue, pGlobalDone, pConn, rdPc, wrPc>>
    /\ UNCHANGED nonStopVars

\* The body of Stop: p.conn.Close().
StopCloseConn(c) ==
    /\ stopCalls[c] = "closeConn"
    /\ pConn' = "closed"
    /\ pCloses' = [pCloses EXCEPT !.conn = @ + 1]
    /\ stopCalls' = [stopCalls EXCEPT ![c] = "closeQueue"]
    /\ UNCHANGED <<stopOnce, pQueue, pGlobalDone, pStopped, rdPc, wrPc>>
    /\ UNCHANGED nonStopVars

\* The body of Stop: close(p.requestsQueue).
StopCloseQueue(c) ==
    /\ stopCalls[c] = "closeQueue"
    /\ pQueue' = "closed"
    /\ pCloses' = [pCloses EXCEPT !.queue = @ + 1]
    /\ stopCalls' = [stopCalls EXCEPT ![c] = "emit"]
    /\ UNCHANGED <<stopOnce, pGlobalDone, pStopped, pConn, rdPc, wrPc>>
    /\ UNCHANGED nonStopVars

\* The body of Stop: emitStopped returns, the body ends and the Once is
\* done.
StopEmit(c) ==
    /\ stopCalls[c] = "emit"
    /\ stopOnce' = "done"
    /\ stopCalls' = [stopCalls EXCEPT ![c] = "returned"]
    /\ UNCHANGED <<pQueue, pCloses, pGlobalDone, pStopped, pConn, rdPc, wrPc>>
    /\ UNCHANGED nonStopVars

\* The steps of caller c inside Peer.Stop.
StopStep(c) ==
    \/ OnceDo(c)
    \/ StopCloseStopped(c)
    \/ StopCloseConn(c)
    \/ StopCloseQueue(c)
    \/ StopEmit(c)

\* A task returns from its loop: its deferred p.Stop(ctx) is called.
Deferred(c) == stopCalls' = [stopCalls EXCEPT ![c] = "once"]

\* readMessages, the select at the top of the loop.
RdSelect ==
    /\ rdPc = "select"
    /\ IF pGlobalDone \/ pStopped
       THEN rdPc' = "deferred" /\ Deferred("reader")
       ELSE rdPc' = "read" /\ UNCHANGED stopCalls
    /\ UNCHANGED <<stopOnce, pQueue, pCloses, pGlobalDone, pStopped, pConn,
                   wrPc>>
    /\ UNCHANGED nonStopVars

\* readMessage returns: a frame or a timeout on an open socket (the loop
\* continues), or an error, as on a closed socket (the loop returns).
RdRead ==
    /\ rdPc = "read"
    /\ \/ pConn = "open" /\ rdPc' = "select" /\ UNCHANGED stopCalls
       \/ rdPc' = "deferred" /\ Deferred("reader")
    /\ UNCHANGED <<stopOnce, pQueue, pCloses, pGlobalDone, pStopped, pConn,
                   wrPc>>
    /\ UNCHANGED nonStopVars

\* The reader's deferred Stop returned: the task exits.
RdExit ==
    /\ rdPc = "deferred"
    /\ stopCalls["reader"] = "returned"
    /\ rdPc' = "exited"
    /\ UNCHANGED <<stopCalls, stopOnce, pQueue, pCloses, pGlobalDone,
                   pStopped, pConn, wrPc>>
    /\ UNCHANGED nonStopVars

\* writeMessages, the select: done, the stop channel or the closed mailbox
\* is chosen and the loop returns.
WrReturns ==
    /\ wrPc = "select"
    /\ pGlobalDone \/ pStopped \/ pQueue = "closed"
    /\ wrPc' = "deferred"
    /\ Deferred("writer")
    /\ UNCHANGED <<stopOnce, pQueue, pCloses, pGlobalDone, pStopped, pConn,
                   rdPc>>
    /\ UNCHANGED nonStopVars

\* writeMessages, the select: the keep-alive tick or a message of the
\* mailbox is chosen, and the writer goes on to write.
WrPicks ==
    /\ wrPc = "select"
    /\ wrPc' = "write"
    /\ UNCHANGED <<stopCalls, stopOnce, pQueue, pCloses, pGlobalDone,
                   pStopped, pConn, rdPc>>
    /\ UNCHANGED nonStopVars

\* writeMessage returns: done on an open socket (the loop continues), or
\* an error, as on a closed socket (the loop returns).
WrWrite ==
    /\ wrPc = "write"
    /\ \/ pConn = "open" /\ wrPc' = "select" /\ UNCHANGED stopCalls
       \/ wrPc' = "deferred" /\ Deferred("writer")
    /\ UNCHANGED <<stopOnce, pQueue, pCloses, pGlobalDone, pStopped, pConn,
                   rdPc>>
    /\ UNCHANGED nonStopVars

\* The writer's deferred Stop returned: the task exits.
WrExit ==
    /\ wrPc = "deferred"
    /\ stopCalls["writer"] = "returned"
    /\ wrPc' = "exited"
    /\ UNCHANGED <<stopCalls, stopOnce, pQueue, pCloses, pGlobalDone,
                   pStopped, pConn, rdPc>>
    /\ UNCHANGED nonStopVars

ReaderStep == RdSelect \/ RdRead \/ RdExit
WriterStep == WrWrite \/ WrExit

StopNext ==
    \/ SessGlobalDone
    \/ \E c \in StopCallers4 : StopCall(c)
    \/ \E c \in StopCallers4 : StopStep(c)
    \/ ReaderStep
    \/ WrReturns
    \/ WrPicks
    \/ WriterStep

(***************************************************************************)
(* One peer session: the mailbox and writeMessages                         *)
(***************************************************************************)

\* Time is counted in ticks; the steps of the writer take no time of their
\* own, and the clock may advance between any two of them.
KeepAliveTicks == 2    \* cfg.KeepAlive (30 s), in ticks
MaxTicks == 4          \* the clock stops here
MailboxCap == 2        \* capacity of requestsQueue (128), scaled down
MaxFrames == 2         \* frames put into the mailbox during one run

NilMsg == 0            \* a nil *Message in the mailbox
KeepAliveFrame == 0    \* on the wire: the frame WriteMessage(conn, nil) writes

\* NewPeer and the start of writeMessages: an empty open mailbox, the ticker
\* armed, lastKeepAliveSend = time.Now().
MailInit ==
    mail = [queue |-> <<>>, closed |-> FALSE, stopped |-> FALSE,
            conn |-> "open", done |-> FALSE, pc |-> "select", cur |-> NilMsg,
            stopPc |-> "fresh", now |-> 0, last |-> 0, tick |-> FALSE,
            nextTick |-> KeepAliveTicks, put |-> 0, wire |-> <<>>,
            saw |-> FALSE]

\* A party of the session puts a frame, or a nil message, into the mailbox
\* that has room and is not closed.  The frames are numbered as they are
\* put.
MailPut(isNil) ==
    /\ ~mailClosed
    /\ Len(mailQueue) < MailboxCap
    /\ mailPut < MaxFrames
    /\ mail' = IF isNil
               THEN [mail EXCEPT !.queue = Append(@, NilMsg)]
               ELSE [mail EXCEPT !.queue = Append(@, mailPut + 1),
                                 !.put = @ + 1]
    /\ UNCHANGED nonMailVars

\* Time passes; the ticker, whose channel holds one tick at most, fires
\* every cfg.KeepAlive.
MailClock ==
    /\ mailNow < MaxTicks
    /\ mail' = IF mailNow + 1 >= mailNextTick
               THEN [mail EXCEPT !.now = @ + 1, !.tick = TRUE,
                                 !.nextTick = @ + KeepAliveTicks]
               ELSE [mail EXCEPT !.now = @ + 1]
    /\ UNCHANGED nonMailVars

\* Manager.Stop closes the manager's done channel.
MailGlobalDone ==
    /\ ~mailDone
    /\ mail' = [mail EXCEPT !.done = TRUE]
    /\ UNCHANGED nonMailVars

\* Peer.Stop, called by the reader, by removePeer or by Manager.Stop:
\* stopOnce runs the function for the first caller.
MailStopCall ==
    /\ mailStopPc = "fresh"
    /\ mail' = [mail EXCEPT !.stopPc = "closeStopped"]
    /\ UNCHANGED nonMailVars

\* The function run by stopOnce, statement by statement: close(p.stopped),
\* p.conn.Close(), close(p.requestsQueue).
MailStopStep ==
    /\ mailStopPc \in {"closeStopped", "closeConn", "closeQueue"}
    /\ mail' = CASE mailStopPc = "closeStopped" ->
                      [mail EXCEPT !.stopped = TRUE, !.stopPc = "closeConn"]
                 [] mailStopPc = "closeConn" ->
                      [mail EXCEPT !.conn = "closed", !.stopPc = "closeQueue"]
                 [] mailStopPc = "closeQueue" ->
                      [mail EXCEPT !.closed = TRUE, !.stopPc = "done"]
    /\ UNCHANGED nonMailVars

\* writeMessages returns: the deferred Peer.Stop is called.
WriterReturn(m) ==
    [m EXCEPT !.pc = "exited",
              !.stopPc = IF @ = "fresh" THEN "closeStopped" ELSE @]

\* The select of writeMessages takes <-globalDone or <-p.stopped.
WriterSeesStop ==
    /\ mailPc = "select"
    /\ mailDone \/ mailStopped
    /\ mail' = [WriterReturn(mail) EXCEPT !.saw = TRUE]
    /\ UNCHANGED nonMailVars

\* The select takes <-keepAliveTicker.C: nothing is sent when the last
\* keep-alive is younger than cfg.KeepAlive.
WriterTakesTick ==
    /\ mailPc = "select"
    /\ mailTick
    /\ mail' = [mail EXCEPT
                   !.tick = FALSE,
                   !.pc = IF mailNow - mailLast < KeepAliveTicks
                          THEN "select" ELSE "writeKeepAlive"]
    /\ UNCHANGED nonMailVars

\* A receive from the mailbox: the oldest message and what stays behind;
\* and the same for a mailbox served from its other end.
recvNewest(q) == [msg |-> q[Len(q)], rest |-> SubSeq(q, 1, Len(q) - 1)]
recv(q) == [msg |-> Head(q), rest |-> Tail(q)]

\* The select takes <-p.requestsQueue: return when the mailbox is closed
\* and drained, skip a nil message, else go on to write the frame.
WriterReceives ==
    /\ mailPc = "select"
    /\ mailQueue # <<>> \/ mailClosed
    /\ mail' = IF mailQueue = <<>>
               THEN WriterReturn(mail)
               ELSE [mail EXCEPT
                        !.queue = recv(mailQueue).rest,
                        !.cur = recv(mailQueue).msg,
                        !.pc = IF recv(mailQueue).msg = NilMsg
                               THEN "select" ELSE "write"]
    /\ UNCHANGED nonMailVars

\* writeMessage(message): the frame goes out, or the write fails (always
\* on a closed socket) and writeMessages returns.
WriterWrites(ok) ==
    /\ mailPc = "write"
    /\ mail' = IF ok /\ mailConn = "open"
               THEN [mail EXCEPT
                        !.wire = Append(@, [f |-> mailCur, at |-> mailNow]),
                        !.cur = NilMsg,
                        !.pc = "select"]
               ELSE [WriterReturn(mail) EXCEPT !.cur = NilMsg]
    /\ UNCHANGED nonMailVars

\* writeMessage(nil): the keep-alive goes out and lastKeepAliveSend is set,
\* or the write fails and writeMessages returns.
WriterWritesKeepAlive(ok) ==
    /\ mailPc = "writeKeepAlive"
    /\ mail' = IF ok /\ mailConn = "open"
               THEN [mail EXCEPT
                        !.wire = Append(@, [f |-> KeepAliveFrame,
                                            at |-> mailNow]),
                        !.last = mailNow,
                        !.pc = "select"]
               ELSE WriterReturn(mail)
    /\ UNCHANGED nonMailVars

MailNext ==
    \/ \E isNil \in BOOLEAN : MailPut(isNil)
    \/ MailClock
    \/ MailGlobalDone
    \/ MailStopCall
    \/ MailStopStep
    \/ WriterSeesStop
    \/ WriterTakesTick
    \/ WriterReceives
    \/ \E ok \in BOOLEAN : WriterWrites(ok)
    \/ \E ok \in BOOLEAN : WriterWritesKeepAlive(ok)

(***************************************************************************)
(* The peer handshake                                                      *)
(***************************************************************************)

szReservedBytes == 8
Sha1Size == 20
StdPstrLen == 19       \* len("BitTorrent protocol")

NumHashes == 2         \* distinct info-hashes a remote may answer with
NumPeerIDs == 2        \* distinct peer ids a remote may answer with

\* A byte string of n bytes b.
Rep(n, b) == [i \in 1..n |-> b]

\* The torrent's info-hash and this client's peer id, as NewPeer passes
\* them to NewHandshake.
OurInfoHash == Rep(Sha1Size, 1)
OurPeerID == Rep(Sha1Size, 1)

\* Handshake.Serialize: <pstrlen><pstr><reserved:8><info_hash:20><peer_id:20>.
Serialize(h) ==
    <<Len(h.Pstr) % ByteMod>> \o h.Pstr \o Rep(szReservedBytes, 0)
        \o h.InfoHash \o h.PeerID

\* copy(dst[:], src) into a zeroed array of Sha1Size bytes.
CopyHash(src) ==
    [i \in 1..Sha1Size |-> IF i <= Len(src) THEN src[i] ELSE 0]

\* The slice b[lo:hi] (lo, hi counted from 0).
Slice(b, lo, hi) == SubSeq(b, lo + 1, hi)

\* readHanshake on the bytes the remote sends before the read deadline.  The
\* sums with pstrlen are byte sums; a slice expression out of range panics.
readHanshake(stream) ==
    IF Len(stream) < 1 THEN [err |-> "eof"]
    ELSE LET pstrlen == stream[1]
             n == (48 + pstrlen) % ByteMod
             lo == (pstrlen + szReservedBytes) % ByteMod
             hi == (pstrlen + szReservedBytes + Sha1Size) % ByteMod
             buf == SubSeq(stream, 2, 1 + n)
         IN IF pstrlen = 0 THEN [err |-> "pstrlen can't be 0"]
            ELSE IF Len(stream) - 1 < n THEN [err |-> "eof"]
            ELSE IF lo > hi \/ hi > n \/ pstrlen > n THEN [err |-> "panic"]
            ELSE [err |-> "nil",
                  Pstr |-> Slice(buf, 0, pstrlen),
                  InfoHash |-> CopyHash(Slice(buf, lo, hi)),
                  PeerID |-> CopyHash(Slice(buf, hi, n))]

\* Handshake.Perform after its own handshake has been written: read the
\* remote's and compare its info-hash and its peer id with the fields of h.
Perform(h, stream) ==
    LET res == readHanshake(stream)
    IN IF res.err # "nil" THEN res.err
       ELSE IF h.InfoHash # res.InfoHash THEN "info hash mismatch"
       ELSE IF h.PeerID # res.PeerID THEN "peer id mismatch"
       ELSE "nil"

\* The handshake NewPeer performs: NewHandshake(m.infoHash, m.peerID).
NewHandshake(infoHash, peerID) ==
    [Pstr |-> Rep(StdPstrLen, 66), InfoHash |-> infoHash, PeerID |-> peerID]

\* What a remote may answer: a handshake with a protocol string of some
\* length, an info-hash and a peer id, all of it or only its first bytes.
RemoteHandshakes ==
    [Pstr : {Rep(n, 66) : n \in {0, 1, StdPstrLen, 250}},
     InfoHash : {Rep(Sha1Size, b) : b \in 1..NumHashes},
     PeerID : {Rep(Sha1Size, b) : b \in 1..NumPeerIDs},
     cut : {0, 1, Sha1Size + 1}]

\* The bytes of the remote's answer that arrive.
Wire(r) ==
    LET all == Serialize(r) IN SubSeq(all, 1, Len(all) - r.cut)

\* A dial worker has connected to a remote and is about to handshake.
HsInit ==
    /\ hsRemote \in RemoteHandshakes
    /\ hsPc = "write"
    /\ hsResult = "none"

\* Perform: the write of our handshake, which succeeds or fails.
HsWrite ==
    /\ hsPc = "write"
    /\ \/ hsPc' = "read" /\ UNCHANGED hsResult
       \/ hsPc' = "done" /\ hsResult' = "write error"
    /\ UNCHANGED hsRemote
    /\ UNCHANGED nonHsVars

\* Perform: the read of the remote's handshake and the comparisons.
HsRead ==
    /\ hsPc = "read"
    /\ hsPc' = "done"
    /\ hsResult' = Perform(NewHandshake(OurInfoHash, OurPeerID),
                           Wire(hsRemote))
    /\ UNCHANGED hsRemote
    /\ UNCHANGED nonHsVars

HsNext ==
    \/ HsWrite
    \/ HsRead

(***************************************************************************)
(* Tracker manager                                                         *)
(***************************************************************************)

\* Bounds of the tracker model.  Durations are counted in ticks of a tenth
\* of a second, so that d * (1 - JitterFraction) is a whole number of ticks
\* for every whole number of seconds d, as it is a whole number of
\* nanoseconds in the program.
MaxIntervalSecs == 2   \* largest interval / min interval a tracker returns
FallbackSecs == 2      \* cfg.FallbackInterval (30 min), scaled down
InitialBackoffSecs == 1 \* cfg.InitialBackoff (10 s), scaled down
MaxBackoffSecs == 2    \* cfg.MaxBackoff (15 min), scaled down
MaxCount == 2          \* the observer's counters saturate here
MaxSinks == 2          \* calls of OnPeers during one run

Second == 10
JitterPct == 10
RespectMinInterval == TRUE
OnPeersSet == TRUE     \* NewManager refuses a nil OnPeers

Trackers == DOMAIN loops        \* m.trackers
Watched == DOMAIN hist          \* the trackers the observer follows
StopCallers == DOMAIN stoppers
FallbackInterval == FallbackSecs * Second
InitialBackoff == InitialBackoffSecs * Second
MaxBackoff == MaxBackoffSecs * Second
RespDurations == {s * Second : s \in 0..MaxIntervalSecs}
\* The peer lists a response can carry: none, or one peer of the swarm.
RespPeers == {<<>>} \cup {<<p>> : p \in swarm}
\* The observer's clock stops at the longest wait any response can ask for.
ElapsedCap == (MaxIntervalSecs + FallbackSecs) * Second

Min(a, b) == IF a < b THEN a ELSE b
Max(a, b) == IF a > b THEN a ELSE b
Bump(n) == Min(n + 1, MaxCount)

\* runAnnounceLoop, the switch choosing the request's event.
requestEvent(startedSent, completedSent, reqLeft) ==
    IF ~startedSent THEN "started"
    ELSE IF reqLeft = 0 /\ ~completedSent THEN "completed"
    ELSE "none"

\* runAnnounceLoop, the backoff after a failed announce.
nextBackoff(b) == Min(b * 2, MaxBackoff)

\* runAnnounceLoop: the interval kept after a response.
newInterval(interval, respInterval) ==
    IF respInterval > 0 THEN respInterval ELSE interval

\* nextSleep with the tracker's min interval ignored.
nextSleepNoMin(interval, respMin) == interval

\* runAnnounceLoop: the sleep before the next regular announce.
nextSleep(interval, respMin) ==
    IF RespectMinInterval /\ respMin > 0 /\ interval < respMin
    THEN respMin ELSE interval

\* jitter: the durations time.Duration(lo + rand.Float64()*(hi-lo)) can
\* take, with lo = d*(1-f), hi = d*(1+f) and the conversion truncating.
jitter(d) ==
    LET dd == IF d <= 0 THEN FallbackInterval ELSE d
        lo == dd * (100 - JitterPct)
        hi == dd * (100 + JitterPct)
    IN IF hi = lo THEN {lo \div 100}
       ELSE (lo \div 100) .. (((hi + 99) \div 100) - 1)

\* emitPeers: nothing without a callback or without peers; else the list is
\* copied into a fresh slice and one goroutine is launched that calls
\* OnPeers on the copy, with a deferred recover.  The result is the
\* goroutines launched; shared tells whether the callback's slice is the
\* response's own.
emitPeers(from, ps) ==
    IF ~OnPeersSet \/ Len(ps) = 0 THEN <<>>
    ELSE <<[from |-> from, ps |-> ps, shared |-> FALSE, state |-> "running"]>>

\* The state after NewManager and the launch of Start's loops, for a manager
\* of the trackers ts, with the Stop callers cs, the observer following
\* the trackers ws, and trackers that know of the peers sw.
TrackerInitFor(ts, cs, ws, sw) ==
    /\ ctxDone = FALSE
    /\ grpDone = FALSE
    /\ closed = FALSE
    /\ left \in {0, 1}
    /\ loops = [t \in ts |->
                  [pc |-> "request", startedSent |-> FALSE,
                   completedSent |-> FALSE, interval |-> FallbackInterval,
                   backoff |-> InitialBackoff, event |-> "none",
                   reqLeft |-> 0, sleep |-> 0]]
    /\ hist = [t \in ws |->
                  [retry |-> FALSE, succeeded |-> FALSE,
                   respInterval |-> 0, respMin |-> 0, elapsed |-> 0,
                   stoppedReqs |-> 0, completedReqs |-> 0,
                   completedOK |-> 0]]
    /\ startPc = "running"
    /\ stoppers = [c \in cs |->
                     [pc |-> "idle", pending |-> {}, sent |-> FALSE]]
    /\ swarm = sw
    /\ sinks = <<>>

\* One tracker, two callers of Stop (their calls may overlap), the observer
\* on; the trackers return no peers.
TrackerInit == TrackerInitFor({1}, {1, 2}, {1}, {})

\* Two trackers, one Stop caller, the observer off; the trackers return no
\* peers.
TrackersInit == TrackerInitFor({1, 2}, {1}, {}, {})

\* One tracker that returns peers, one Stop caller, the observer off.
SinkInit == TrackerInitFor({1}, {1}, {}, {1})

\* The observer's record of tracker t after the update f, when it follows t.
Observe(t, f(_)) ==
    hist' = IF t \in Watched THEN [hist EXCEPT ![t] = f(@)] ELSE hist

\* Manager.UpdateStats, as the announce loop's choice of event sees it: the
\* store of the left counter.
UpdateStats(l) ==
    /\ left # l
    /\ left' = l
    /\ UNCHANGED <<ctxDone, grpDone, closed, loops, hist, startPc, stoppers,
                 swarm, sinks>>
    /\ UNCHANGED nonTrackerVars

\* The host cancels the context given to Manager.Start; the errgroup's
\* context is derived from it.
CancelCtx ==
    /\ ~ctxDone
    /\ ctxDone' = TRUE
    /\ grpDone' = TRUE
    /\ UNCHANGED <<closed, left, loops, hist, startPc, stoppers, swarm, sinks>>
    /\ UNCHANGED nonTrackerVars

\* runAnnounceLoop: build the request from the stats and the flags, and
\* call tracker.Announce.
LoopRequest(t) ==
    /\ loops[t].pc = "request"
    /\ LET ev == requestEvent(loops[t].startedSent, loops[t].completedSent,
                              left)
       IN /\ loops' = [loops EXCEPT ![t].pc = "announce",
                                    ![t].event = ev,
                                    ![t].reqLeft = left]
          /\ LET f(h) == [h EXCEPT !.completedReqs =
                              IF ev = "completed" THEN Bump(@) ELSE @]
             IN Observe(t, f)
    /\ UNCHANGED <<ctxDone, grpDone, closed, left, startPc, stoppers, swarm, sinks>>
    /\ UNCHANGED nonTrackerVars

\* announceFailed with the lifecycle event given up after the failure.
announceFailedRevert(l) ==
    [l EXCEPT !.backoff = nextBackoff(l.backoff),
              !.sleep = nextBackoff(l.backoff),
              !.startedSent = TRUE,
              !.event = "none", !.reqLeft = 0,
              !.pc = "sleep"]

\* announceFailed with the error returned to the errgroup.
announceFailedReturns(l) ==
    [l EXCEPT !.backoff = nextBackoff(l.backoff),
              !.event = "none", !.reqLeft = 0,
              !.pc = "returned"]

\* runAnnounceLoop after a failed announce: double the backoff and go to
\* sleep for it.
announceFailed(l) ==
    [l EXCEPT !.backoff = nextBackoff(l.backoff),
              !.sleep = nextBackoff(l.backoff),
              !.event = "none", !.reqLeft = 0,
              !.pc = "sleep"]

\* announceSucceeded with completedSent left clear.
announceSucceededKeepCompleted(l, respInterval, respMin) ==
    [l EXCEPT !.startedSent = (l.startedSent \/ l.event = "started"),
              !.backoff = InitialBackoff,
              !.interval = newInterval(l.interval, respInterval),
              !.sleep = nextSleep(newInterval(l.interval, respInterval),
                                  respMin),
              !.event = "none", !.reqLeft = 0,
              !.pc = "sleep"]

\* runAnnounceLoop after a successful announce: record the lifecycle event
\* that got through, reset the backoff, compute the next sleep.
announceSucceeded(l, respInterval, respMin) ==
    [l EXCEPT !.startedSent = (l.startedSent \/ l.event = "started"),
              !.completedSent = (l.completedSent \/ l.event = "completed"),
              !.backoff = InitialBackoff,
              !.interval = newInterval(l.interval, respInterval),
              !.sleep = nextSleep(newInterval(l.interval, respInterval),
                                  respMin),
              !.event = "none", !.reqLeft = 0,
              !.pc = "sleep"]

\* tracker.Announce returns an error.
LoopAnnounceFails(t) ==
    /\ loops[t].pc = "announce"
    /\ loops' = [loops EXCEPT ![t] = announceFailed(loops[t])]
    /\ LET f(h) == [h EXCEPT !.retry = TRUE]
       IN Observe(t, f)
    /\ grpDone' = (grpDone \/ loops'[t].pc = "returned")
    /\ UNCHANGED <<ctxDone, closed, left, startPc, stoppers, swarm, sinks>>
    /\ UNCHANGED nonTrackerVars

\* tracker.Announce returns a response; its peers go to emitPeers.
LoopAnnounceSucceeds(t, respInterval, respMin, respPeers) ==
    /\ loops[t].pc = "announce"
    /\ Len(sinks) + Len(emitPeers(t, respPeers)) <= MaxSinks
    /\ sinks' = sinks \o emitPeers(t, respPeers)
    /\ loops' = [loops EXCEPT
                   ![t] = announceSucceeded(loops[t], respInterval, respMin)]
    /\ LET f(h) == [h EXCEPT
                        !.retry = FALSE,
                        !.succeeded = TRUE,
                        !.respInterval = respInterval,
                        !.respMin = respMin,
                        !.elapsed = 0,
                        !.completedOK =
                           IF loops[t].event = "completed" THEN Bump(@)
                           ELSE @]
       IN Observe(t, f)
    /\ UNCHANGED <<ctxDone, grpDone, closed, left, startPc, stoppers, swarm>>
    /\ UNCHANGED nonTrackerVars

\* sleepCtx returns nil: the timer of jitter(d) fired.
LoopSleepEnds(t) ==
    /\ loops[t].pc = "sleep"
    /\ \E d \in jitter(loops[t].sleep) :
          LET f(h) == [h EXCEPT !.elapsed = IF h.succeeded
                                            THEN Min(@ + d, ElapsedCap)
                                            ELSE @]
          IN Observe(t, f)
    /\ loops' = [loops EXCEPT ![t].pc = "request", ![t].sleep = 0]
    /\ UNCHANGED <<ctxDone, grpDone, closed, left, startPc, stoppers, swarm, sinks>>
    /\ UNCHANGED nonTrackerVars

\* sleepCtx returns the context's error: the loop goes on to its stopped
\* announce.
LoopSleepCancelled(t) ==
    /\ loops[t].pc = "sleep"
    /\ grpDone
    /\ loops' = [loops EXCEPT ![t].pc = "sendStopped", ![t].sleep = 0]
    /\ UNCHANGED <<ctxDone, grpDone, closed, left, hist, startPc, stoppers,
                 swarm, sinks>>
    /\ UNCHANGED nonTrackerVars

\* runAnnounceLoop: sendStopped, whose outcome is ignored, then return the
\* context's error to the errgroup.
LoopSendStopped(t) ==
    /\ loops[t].pc = "sendStopped"
    /\ LET f(h) == [h EXCEPT !.stoppedReqs = Bump(@)]
       IN Observe(t, f)
    /\ loops' = [loops EXCEPT ![t].pc = "returned"]
    /\ grpDone' = TRUE
    /\ UNCHANGED <<ctxDone, closed, left, startPc, stoppers, swarm, sinks>>
    /\ UNCHANGED nonTrackerVars

\* Manager.Start: grp.Wait() returns once every loop has returned; closed
\* is set.
StartReturns ==
    /\ startPc = "running"
    /\ \A t \in Trackers : loops[t].pc = "returned"
    /\ closed' = TRUE
    /\ startPc' = "returned"
    /\ UNCHANGED <<ctxDone, grpDone, left, loops, hist, stoppers, swarm, sinks>>
    /\ UNCHANGED nonTrackerVars

\* Manager.Stop: the check of closed; when it is clear, one goroutine per
\* tracker is launched to send stopped.
StopCheck(c) ==
    /\ stoppers[c].pc = "idle"
    /\ stoppers' = IF closed
                   THEN [stoppers EXCEPT ![c].pc = "returned"]
                   ELSE [stoppers EXCEPT ![c].pc = "sending",
                                         ![c].pending = Trackers]
    /\ UNCHANGED <<ctxDone, grpDone, closed, left, loops, hist, startPc,
                 swarm, sinks>>
    /\ UNCHANGED nonTrackerVars

\* Manager.Stop: one of its goroutines runs sendStopped for its tracker.
StopSend(c, t) ==
    /\ stoppers[c].pc = "sending"
    /\ t \in stoppers[c].pending
    /\ stoppers' = [stoppers EXCEPT ![c].pending = @ \ {t},
                                    ![c].sent = TRUE]
    /\ LET f(h) == [h EXCEPT !.stoppedReqs = Bump(@)]
       IN Observe(t, f)
    /\ UNCHANGED <<ctxDone, grpDone, closed, left, loops, startPc, swarm, sinks>>
    /\ UNCHANGED nonTrackerVars

\* Manager.Stop: wg.Wait() returns, closed is set.
StopStore(c) ==
    /\ stoppers[c].pc = "sending"
    /\ stoppers[c].pending = {}
    /\ closed' = TRUE
    /\ stoppers' = [stoppers EXCEPT ![c].pc = "returned"]
    /\ UNCHANGED <<ctxDone, grpDone, left, loops, hist, startPc, swarm, sinks>>
    /\ UNCHANGED nonTrackerVars

\* The OnPeers callback of goroutine i returns.
SinkReturns(i) ==
    /\ i \in DOMAIN sinks
    /\ sinks[i].state = "running"
    /\ sinks' = [sinks EXCEPT ![i].state = "returned"]
    /\ UNCHANGED <<ctxDone, grpDone, closed, left, loops, hist, startPc,
                   stoppers, swarm>>
    /\ UNCHANGED nonTrackerVars

\* SinkPanics without the deferred recover: the panic ends the process, and
\* every announce loop with it.
SinkPanicsUnrecovered(i) ==
    /\ i \in DOMAIN sinks
    /\ sinks[i].state = "running"
    /\ sinks' = [sinks EXCEPT ![i].state = "panicked"]
    /\ loops' = [t \in Trackers |-> [loops[t] EXCEPT !.pc = "crashed"]]
    /\ UNCHANGED <<ctxDone, grpDone, closed, left, hist, startPc,
                   stoppers, swarm>>
    /\ UNCHANGED nonTrackerVars

\* The OnPeers callback of goroutine i panics: the deferred recover logs
\* the panic and the goroutine ends.
SinkPanics(i) ==
    /\ i \in DOMAIN sinks
    /\ sinks[i].state = "running"
    /\ sinks' = [sinks EXCEPT ![i].state = "recovered"]
    /\ UNCHANGED <<ctxDone, grpDone, closed, left, loops, hist, startPc,
                   stoppers, swarm>>
    /\ UNCHANGED nonTrackerVars

TrackerNext ==
    \/ \E l \in {0, 1} : UpdateStats(l)
    \/ CancelCtx
    \/ \E t \in Trackers : LoopRequest(t)
    \/ \E t \in Trackers : LoopAnnounceFails(t)
    \/ \E t \in Trackers : \E ri, rm \in RespDurations :
          \E ps \in RespPeers : LoopAnnounceSucceeds(t, ri, rm, ps)
    \/ \E t \in Trackers : LoopSleepEnds(t)
    \/ \E t \in Trackers : LoopSleepCancelled(t)
    \/ \E t \in Trackers : LoopSendStopped(t)
    \/ StartReturns
    \/ \E c \in StopCallers : StopCheck(c)
    \/ \E c \in StopCallers : \E t \in Trackers : StopSend(c, t)
    \/ \E c \in StopCallers : StopStore(c)

(***************************************************************************)
(* Tracker manager: the stats counters, load by load and store by store    *)
(***************************************************************************)

MaxStat == 1           \* largest value of a stats counter
MaxStatCalls == 2      \* calls of UpdateStats after NewManager's

Stats == 0..MaxStat

\* The state after NewManager, whose UpdateStats call has stored the initial
\* triple, with an announce loop about to build a request.
StatsInit ==
    /\ uploaded = 0
    /\ downloaded = 0
    /\ updater = [pc |-> "idle", uploaded |-> 0, downloaded |-> 0, left |-> 0]
    /\ statReq = [pc |-> "loadUploaded", uploaded |-> 0, downloaded |-> 0,
                  left |-> 0]
    /\ statCalls = {<<0, 0, left>>}

\* The host calls UpdateStats(u, d, l).
StatsCall(u, d, l) ==
    /\ updater.pc = "idle"
    /\ Cardinality(statCalls) <= MaxStatCalls
    /\ <<u, d, l>> \notin statCalls
    /\ updater' = [pc |-> "storeUploaded", uploaded |-> u, downloaded |-> d,
                   left |-> l]
    /\ statCalls' = statCalls \cup {<<u, d, l>>}
    /\ UNCHANGED <<uploaded, downloaded, left, statReq>>
    /\ UNCHANGED nonStatsVars

\* UpdateStats: m.uploaded.Store(uploaded).
StoreUploaded ==
    /\ updater.pc = "storeUploaded"
    /\ uploaded' = updater.uploaded
    /\ updater' = [updater EXCEPT !.pc = "storeDownloaded"]
    /\ UNCHANGED <<downloaded, left, statReq, statCalls>>
    /\ UNCHANGED nonStatsVars

\* UpdateStats: m.downloaded.Store(downloaded).
StoreDownloaded ==
    /\ updater.pc = "storeDownloaded"
    /\ downloaded' = updater.downloaded
    /\ updater' = [updater EXCEPT !.pc = "storeLeft"]
    /\ UNCHANGED <<uploaded, left, statReq, statCalls>>
    /\ UNCHANGED nonStatsVars

\* UpdateStats: m.left.Store(left), and return.
StoreLeft ==
    /\ updater.pc = "storeLeft"
    /\ left' = updater.left
    /\ updater' = [pc |-> "idle", uploaded |-> 0, downloaded |-> 0,
                   left |-> 0]
    /\ UNCHANGED <<uploaded, downloaded, statReq, statCalls>>
    /\ UNCHANGED nonStatsVars

\* runAnnounceLoop, building the request: Uploaded: m.uploaded.Load().
ReqLoadUploaded ==
    /\ statReq.pc = "loadUploaded"
    /\ statReq' = [statReq EXCEPT !.pc = "loadDownloaded",
                                  !.uploaded = uploaded]
    /\ UNCHANGED <<uploaded, downloaded, left, updater, statCalls>>
    /\ UNCHANGED nonStatsVars

\* runAnnounceLoop, building the request: Downloaded: m.downloaded.Load().
ReqLoadDownloaded ==
    /\ statReq.pc = "loadDownloaded"
    /\ statReq' = [statReq EXCEPT !.pc = "loadLeft",
                                  !.downloaded = downloaded]
    /\ UNCHANGED <<uploaded, downloaded, left, updater, statCalls>>
    /\ UNCHANGED nonStatsVars

\* runAnnounceLoop, building the request: Left: m.left.Load(); the request
\* is complete.
ReqLoadLeft ==
    /\ statReq.pc = "loadLeft"
    /\ statReq' = [statReq EXCEPT !.pc = "built", !.left = left]
    /\ UNCHANGED <<uploaded, downloaded, left, updater, statCalls>>
    /\ UNCHANGED nonStatsVars

\* runAnnounceLoop: the request has been sent and answered, the sleep is
\* over, and the next iteration begins.
ReqNext ==
    /\ statReq.pc = "built"
    /\ statReq' = [pc |-> "loadUploaded", uploaded |-> 0, downloaded |-> 0,
                   left |-> 0]
    /\ UNCHANGED <<uploaded, downloaded, left, updater, statCalls>>
    /\ UNCHANGED nonStatsVars

StatsNext ==
    \/ \E u, d, l \in Stats : StatsCall(u, d, l)
    \/ StoreUploaded
    \/ StoreDownloaded
    \/ StoreLeft
    \/ ReqLoadUploaded
    \/ ReqLoadDownloaded
    \/ ReqLoadLeft
    \/ ReqNext

(***************************************************************************)
(* The UDP tracker client                                                  *)
(***************************************************************************)

\* Time is counted in ticks of baseBackoff (15 s).  A step of Announce that
\* does not wait for the network takes no time.
baseBackoff == 1
connectionIDTTL == 4   \* 60 s
maxRetries == 8
ZeroTime == -1         \* time.Time{}: before every instant of the clock

MaxDeadline == 3       \* latest deadline of the caller's context
MaxDelay == 1          \* longest wait for a datagram that does arrive
NumErrMsgs == 1        \* distinct messages of the tracker's error replies

ErrMsgs == 1..NumErrMsgs

\* backoffWindow with the caller's deadline ignored.
backoffWindowNoDeadline(deadline, hasDeadline, n, now) ==
    baseBackoff * Pow2(n)

\* backoffWindow: baseBackoff << n, cut to what remains until the deadline;
\* 0 when the deadline has passed.
backoffWindow(deadline, hasDeadline, n, now) ==
    LET d == baseBackoff * Pow2(n)
        remain == deadline - now
    IN IF ~hasDeadline THEN d
       ELSE IF remain <= 0 THEN 0
       ELSE IF remain < d THEN remain
       ELSE d

\* What a read of the socket can return before the socket's deadline: a
\* datagram of a kind, with the message of an error reply.
Replies ==
    [kind : {"valid", "short", "action", "txn"}, msg : {0}]
        \cup [kind : {"error"}, msg : ErrMsgs]

\* readConnectPacket / readAnnouncePacket on a datagram: the error returned.
readPacket(reply) ==
    CASE reply.kind = "valid" -> [err |-> "nil", msg |-> 0]
      [] reply.kind = "short" -> [err |-> "short packet", msg |-> 0]
      [] reply.kind = "error" -> [err |-> "tracker", msg |-> reply.msg]
      [] reply.kind = "action" -> [err |-> "action mismatch", msg |-> 0]
      [] reply.kind = "txn" -> [err |-> "transaction id mismatch", msg |-> 0]

\* A client whose cached connection id is absent or still valid, and a
\* call of Announce with a deadline, as the manager's calls are.
\* The observer's record of a client whose connection id expires at ttl:
\* the id was obtained connectionIDTTL before that.
NoObs(ttl) ==
    [lateSend |-> FALSE, errMsgs |-> {}, sent |-> FALSE,
     idAt |-> ttl - connectionIDTTL, mismatch |-> FALSE,
     annAge |-> -1, annAfterMismatch |-> FALSE]

UdpClient(call, pc, ttl) ==
    [call |-> call, now |-> 0, pc |-> pc, n |-> 0, connDeadline |-> 0,
     ttl |-> ttl, result |-> [err |-> "none", msg |-> 0], obs |-> NoObs(ttl)]

UdpInit ==
    udp \in {UdpClient([hasDeadline |-> TRUE, deadline |-> dl], "top", ttl) :
                dl \in 0..MaxDeadline, ttl \in {ZeroTime, 1}}

\* The error Announce ends with; nothing of the failed attempts is kept.
announceError(err) == [err |-> err, msg |-> 0]

\* time.Now().After(c.connectionIDTTL), and the same with an id that is
\* never refreshed.
idExpiredNever(now, ttl) == FALSE
idExpired(now, ttl) == now > ttl

\* Announce, the top of the loop: give up after the last attempt or when
\* backoffWindow leaves no time; else set the socket's deadline and start
\* the attempt with a connect exchange or, with a valid connection id,
\* with the announce packet.
UdpTop ==
    /\ udpPc = "top"
    /\ LET timeout == backoffWindow(udpCall.deadline, udpCall.hasDeadline,
                                    udpN, udpNow)
       IN IF udpN > maxRetries
          THEN udp' = [udp EXCEPT
                          !.pc = "returned",
                          !.result = announceError("exhausted all attempts")]
          ELSE IF timeout <= 0
          THEN udp' = [udp EXCEPT
                          !.pc = "returned",
                          !.result = announceError("deadline exceeded")]
          ELSE udp' = [udp EXCEPT
                          !.connDeadline = udpNow + timeout,
                          !.pc = IF idExpired(udpNow, udpTTL)
                                 THEN "connectSend"
                                 ELSE "announceSend"]
    /\ UNCHANGED nonUdpVars

\* The observer's record after a packet has been sent now.
Sent(o) ==
    [o EXCEPT !.sent = TRUE,
              !.lateSend = @ \/ (udpCall.hasDeadline
                                    /\ udpNow >= udpCall.deadline)]

\* The observer's record after an announce packet has been sent now: the
\* age of the connection id it carries, and whether a mismatch was seen
\* since the id was obtained.
SentAnnounce(o) ==
    [Sent(o) EXCEPT !.annAge = Max(@, udpNow - o.idAt),
                    !.annAfterMismatch = @ \/ o.mismatch]

\* randU32 and sendConnectPacket: the packet is sent, or one of the two
\* fails and the attempt is over.
UdpConnectSend(ok) ==
    /\ udpPc = "connectSend"
    /\ IF ok /\ udpNow < udpConnDeadline
       THEN udp' = [udp EXCEPT !.pc = "connectRead", !.obs = Sent(udpObs)]
       ELSE udp' = [udp EXCEPT !.pc = "top", !.n = udpN + 1]
    /\ UNCHANGED nonUdpVars

\* readConnectPacket returns after the wait d with the datagram reply: a
\* valid one gives the connection id, any other ends the attempt.
UdpConnectRead(d, reply) ==
    /\ udpPc = "connectRead"
    /\ udpNow + d < udpConnDeadline
    /\ LET r == readPacket(reply)
           obs == IF r.err = "tracker"
                  THEN [udpObs EXCEPT !.errMsgs = @ \cup {r.msg}]
                  ELSE udpObs
       IN IF r.err = "nil"
          THEN udp' = [udp EXCEPT !.now = udpNow + d,
                                  !.ttl = udpNow + d + connectionIDTTL,
                                  !.pc = "announceSend",
                                  !.obs = [obs EXCEPT !.idAt = udpNow + d,
                                                      !.mismatch = FALSE]]
          ELSE udp' = [udp EXCEPT !.now = udpNow + d,
                                  !.pc = "top",
                                  !.n = udpN + 1,
                                  !.obs = obs]
    /\ UNCHANGED nonUdpVars

\* A read of the socket gets nothing until the socket's deadline: the
\* attempt is over.
UdpReadTimeout ==
    /\ udpPc \in {"connectRead", "announceRead"}
    /\ udp' = [udp EXCEPT !.now = udpConnDeadline,
                          !.pc = "top",
                          !.n = udpN + 1]
    /\ UNCHANGED nonUdpVars

\* randU32 and sendAnnouncePacket.
UdpAnnounceSend(ok) ==
    /\ udpPc = "announceSend"
    /\ IF ok /\ udpNow < udpConnDeadline
       THEN udp' = [udp EXCEPT !.pc = "announceRead",
                               !.obs = SentAnnounce(udpObs)]
       ELSE udp' = [udp EXCEPT !.pc = "top", !.n = udpN + 1]
    /\ UNCHANGED nonUdpVars

\* readAnnouncePacket returns after the wait d with the datagram reply: a
\* valid one is Announce's result; an action or transaction id mismatch
\* forgets the connection id; any error ends the attempt.
UdpAnnounceRead(d, reply) ==
    /\ udpPc = "announceRead"
    /\ udpNow + d < udpConnDeadline
    /\ LET r == readPacket(reply)
           obs == IF r.err = "tracker"
                  THEN [udpObs EXCEPT !.errMsgs = @ \cup {r.msg}]
                  ELSE udpObs
       IN IF r.err = "nil"
          THEN udp' = [udp EXCEPT !.now = udpNow + d,
                                  !.pc = "returned",
                                  !.result = [err |-> "nil", msg |-> 0],
                                  !.obs = obs]
          ELSE udp' = [udp EXCEPT
                          !.now = udpNow + d,
                          !.pc = "top",
                          !.n = udpN + 1,
                          !.ttl = IF r.err \in {"action mismatch",
                                                "transaction id mismatch"}
                                  THEN ZeroTime ELSE udpTTL,
                          !.obs = [obs EXCEPT !.mismatch =
                                      @ \/ reply.kind \in {"action", "txn"}]]
    /\ UNCHANGED nonUdpVars

UdpNext ==
    \/ UdpTop
    \/ \E ok \in BOOLEAN : UdpConnectSend(ok)
    \/ \E d \in 0..MaxDelay : \E reply \in Replies : UdpConnectRead(d, reply)
    \/ UdpReadTimeout
    \/ \E ok \in BOOLEAN : UdpAnnounceSend(ok)
    \/ \E d \in 0..MaxDelay : \E reply \in Replies : UdpAnnounceRead(d, reply)

\* The tracker manager together with the goroutines running OnPeers.
SinkNext ==
    \/ TrackerNext
    \/ \E i \in 1..MaxSinks : SinkReturns(i)
    \/ \E i \in 1..MaxSinks : SinkPanics(i)

(***************************************************************************)
(* The bencode codec and the metainfo parser's entry                       *)
(***************************************************************************)

\* Byte strings are sequences of byte values.
bInteger == 105        \* 'i'
bDict == 100           \* 'd'
bList == 108           \* 'l'
bDelim == 101          \* 'e'
ChColon == 58          \* ':'
ChZero == 48           \* '0'
ChMinus == 45          \* '-'
ChPlus == 43           \* '+'

MaxStrLen == 2         \* longest byte string among the values encoded
MaxInt == 10           \* largest absolute value among the integers encoded
MaxElems == 2          \* most elements of a list, most keys of a dictionary
MaxDigits == 2         \* longest mantissa among the integers decoded

\* strconv.FormatInt(v, 10) / strconv.Itoa for v >= 0.
RECURSIVE FormatNat(_)
FormatNat(n) ==
    IF n < 10 THEN <<ChZero + n>>
    ELSE FormatNat(n \div 10) \o <<ChZero + (n % 10)>>

\* strconv.FormatInt(v, 10).
FormatInt(v) == IF v < 0 THEN <<ChMinus>> \o FormatNat(-v) ELSE FormatNat(v)

IsDigit(c) == c >= ChZero /\ c <= ChZero + 9

RECURSIVE DigitsValue(_)
DigitsValue(s) ==
    IF s = <<>> THEN 0
    ELSE DigitsValue(SubSeq(s, 1, Len(s) - 1)) * 10 + (s[Len(s)] - ChZero)

\* ParseInt with the sign dropped from the result.
ParseIntDropSign(s) ==
    LET signed == s # <<>> /\ s[1] \in {ChPlus, ChMinus}
        digits == IF signed THEN Tail(s) ELSE s
    IN IF digits = <<>> \/ \E i \in DOMAIN digits : ~IsDigit(digits[i])
       THEN [err |-> TRUE, val |-> 0]
       ELSE [err |-> FALSE, val |-> DigitsValue(digits)]

\* strconv.ParseInt(s, 10, 64): an optional sign, then one or more decimal
\* digits; leading zeros are accepted.  (The inputs are too short to leave
\* the range of int64.)
ParseInt(s) ==
    LET signed == s # <<>> /\ s[1] \in {ChPlus, ChMinus}
        digits == IF signed THEN Tail(s) ELSE s
    IN IF digits = <<>> \/ \E i \in DOMAIN digits : ~IsDigit(digits[i])
       THEN [err |-> TRUE, val |-> 0]
       ELSE [err |-> FALSE,
             val |-> IF s[1] = ChMinus THEN -DigitsValue(digits)
                     ELSE DigitsValue(digits)]

\* The values of the codec: int64, string, []any, map[string]any.
IntVal(n) == [t |-> "int", v |-> n]
StrVal(s) == [t |-> "str", v |-> s]
ListVal(l) == [t |-> "list", v |-> l]
DictVal(m) == [t |-> "dict", v |-> m]

\* Go's < on strings: byte by byte, a proper prefix first.
StrLess(a, b) ==
    \E i \in 1..(Min(Len(a), Len(b)) + 1) :
        /\ \A j \in 1..(i - 1) : a[j] = b[j]
        /\ IF i > Len(a) THEN i <= Len(b)
           ELSE i <= Len(b) /\ a[i] < b[i]

RECURSIVE InsertSorted(_, _)
InsertSorted(k, sorted) ==
    IF sorted = <<>> THEN <<k>>
    ELSE IF StrLess(k, Head(sorted)) THEN <<k>> \o sorted
    ELSE <<Head(sorted)>> \o InsertSorted(k, Tail(sorted))

\* sortStrings left out: the keys stay in the order the map gave them.
sortStringsNone(keys) == keys

\* sort.Strings(keys).
RECURSIVE sortStrings(_)
sortStrings(keys) ==
    IF keys = <<>> THEN <<>>
    ELSE InsertSorted(Head(keys), sortStrings(Tail(keys)))

\* The orders in which a range over a map with the keys S can yield them.
RECURSIVE Orders(_)
Orders(S) ==
    IF S = {} THEN {<<>>}
    ELSE UNION {{<<k>> \o o : o \in Orders(S \ {k})} : k \in S}

\* One of those orders.
RECURSIVE SomeOrder(_)
SomeOrder(S) ==
    IF S = {} THEN <<>>
    ELSE LET k == CHOOSE x \in S : TRUE IN <<k>> \o SomeOrder(S \ {k})

encodeInteger(n) == <<bInteger>> \o FormatInt(n) \o <<bDelim>>

encodeString(s) == FormatInt(Len(s)) \o <<ChColon>> \o s

RECURSIVE Encode(_)
RECURSIVE encodeElems(_)
RECURSIVE encodeEntries(_, _)

\* encodeList, the loop over the elements.
encodeElems(l) ==
    IF l = <<>> THEN <<>> ELSE Encode(Head(l)) \o encodeElems(Tail(l))

encodeList(l) == <<bList>> \o encodeElems(l) \o <<bDelim>>

\* encodeDict, the loop over the sorted keys.
encodeEntries(m, keys) ==
    IF keys = <<>> THEN <<>>
    ELSE encodeString(Head(keys)) \o Encode(m[Head(keys)])
            \o encodeEntries(m, Tail(keys))

\* encodeDict, given the order in which the range over the map yields the
\* keys.
encodeDict(m, order) ==
    <<bDict>> \o encodeEntries(m, sortStrings(order)) \o <<bDelim>>

\* Encoder.Encode.
Encode(v) ==
    CASE v.t = "str" -> encodeString(v.v)
      [] v.t = "list" -> encodeList(v.v)
      [] v.t = "dict" -> encodeDict(v.v, SomeOrder(DOMAIN v.v))
      [] v.t = "int" -> encodeInteger(v.v)

\* The result of a decoding step: an error, or a value and the bytes left
\* in the reader.
DecErr == [err |-> TRUE, val |-> IntVal(0), rest |-> <<>>]
DecOk(v, rest) == [err |-> FALSE, val |-> v, rest |-> rest]

\* The position of the first byte c of b, 0 if there is none.
IndexByte(b, c) ==
    IF \E i \in DOMAIN b : b[i] = c
    THEN CHOOSE i \in DOMAIN b : b[i] = c /\ \A j \in 1..(i - 1) : b[j] # c
    ELSE 0

\* Decoder.readInteger: the bytes up to the delimiter, parsed by ParseInt.
readInteger(b, delim) ==
    LET i == IndexByte(b, delim)
        p == ParseInt(SubSeq(b, 1, i - 1))
    IN IF i = 0 \/ p.err THEN DecErr
       ELSE DecOk(IntVal(p.val), SubSeq(b, i + 1, Len(b)))

decodeInteger(b) == readInteger(b, bDelim)

\* Decoder.decodeString.
decodeString(b) ==
    LET r == readInteger(b, ChColon)
        size == r.val.v
    IN IF r.err THEN DecErr
       ELSE IF size = 0 THEN DecOk(StrVal(<<>>), r.rest)
       ELSE IF size < 0 \/ Len(r.rest) < size THEN DecErr
       ELSE DecOk(StrVal(SubSeq(r.rest, 1, size)),
                  SubSeq(r.rest, size + 1, Len(r.rest)))

RECURSIVE Decode(_)
RECURSIVE decodeList(_, _)
RECURSIVE decodeDict(_, _)

\* Decoder.decodeList, with the list built so far.
decodeList(b, list) ==
    IF b = <<>> THEN DecErr
    ELSE IF b[1] = bDelim THEN DecOk(ListVal(list), Tail(b))
    ELSE LET r == Decode(b)
         IN IF r.err THEN DecErr
            ELSE decodeList(r.rest, Append(list, r.val))

\* Decoder.decodeDict, with the map built so far.
decodeDict(b, dict) ==
    IF b = <<>> THEN DecErr
    ELSE IF b[1] = bDelim THEN DecOk(DictVal(dict), Tail(b))
    ELSE LET key == decodeString(b)
             val == Decode(key.rest)
         IN IF key.err THEN DecErr
            ELSE IF val.err THEN DecErr
            ELSE decodeDict(val.rest,
                            [k \in DOMAIN dict \cup {key.val.v} |->
                                IF k = key.val.v THEN val.val ELSE dict[k]])

\* Decoder.Decode: one value from the front of the reader.
Decode(b) ==
    IF b = <<>> THEN DecErr
    ELSE IF b[1] = bInteger THEN decodeInteger(Tail(b))
    ELSE IF b[1] = bList THEN decodeList(Tail(b), <<>>)
    ELSE IF b[1] = bDict THEN decodeDict(Tail(b), <<>>)
    ELSE decodeString(b)

\* newParser: decode the reader's first value and require a dictionary.
newParser(b) ==
    LET decoded == Decode(b)
    IN IF decoded.err THEN [err |-> TRUE, data |-> <<>>]
       ELSE IF decoded.val.t # "dict" THEN [err |-> TRUE, data |-> <<>>]
       ELSE [err |-> FALSE, data |-> decoded.val.v]

\* ParseMetainfo's (nil, err): no descriptor.
NoMetainfo ==
    [err |-> TRUE, hash |-> 0, urls |-> <<>>, mode |-> "single", size |-> 0,
     files |-> <<>>, pieces |-> 0]

\* The inputs of the codec.
Alphabet == {97, 200}

RECURSIVE StringsUpTo(_)
StringsUpTo(n) ==
    IF n = 0 THEN {<<>>}
    ELSE StringsUpTo(n - 1)
            \cup {Append(s, c) : s \in StringsUpTo(n - 1), c \in Alphabet}

Strings == StringsUpTo(MaxStrLen)
Atoms == {StrVal(s) : s \in Strings} \cup {IntVal(n) : n \in -MaxInt..MaxInt}
SmallAtoms == {StrVal(<<>>), StrVal(<<97>>), IntVal(0), IntVal(-1)}

\* The maps from at most n of the keys K to values of S.
MapsUpTo(K, S, n) ==
    UNION {[D -> S] : D \in {E \in SUBSET K : Cardinality(E) <= n}}

Containers ==
    {ListVal(l) : l \in SeqsUpTo(SmallAtoms, MaxElems)}
        \cup {DictVal(m) : m \in MapsUpTo(Strings, SmallAtoms, MaxElems)}

\* A list or a dictionary inside a list or a dictionary.
Nested ==
    LET inner == {ListVal(<<>>), ListVal(<<IntVal(1)>>),
                  DictVal([k \in {<<200>>, <<97>>} |-> IntVal(-1)])}
    IN {ListVal(<<x>>) : x \in inner}
          \cup {DictVal([k \in {<<97>>} |-> x]) : x \in inner}

Values == Atoms \cup Containers \cup Nested

\* d3:bar4:spam3:fooi42ee and the value it stands for.
ExampleBytes ==
    <<100, 51, 58, 98, 97, 114, 52, 58, 115, 112, 97, 109,
      51, 58, 102, 111, 111, 105, 52, 50, 101, 101>>
ExampleValue ==
    DictVal([k \in {<<98, 97, 114>>, <<102, 111, 111>>} |->
                IF k = <<98, 97, 114>> THEN StrVal(<<115, 112, 97, 109>>)
                ELSE IntVal(42)])

\* Integers as a remote may write them: i<mantissa>e with a mantissa of
\* signs and digits.
Mantissas == SeqsUpTo({ChMinus, ChZero, ChZero + 3}, MaxDigits)
IntegerInputs == {<<bInteger>> \o m \o <<bDelim>> : m \in Mantissas}

\* The mantissas the format forbids: empty, -0, a leading zero before more
\* digits.
BadMantissa(m) ==
    \/ m = <<>>
    \/ m = <<ChMinus, ChZero>>
    \/ Len(m) >= 2 /\ m[1] = ChZero
    \/ Len(m) >= 3 /\ m[1] = ChMinus /\ m[2] = ChZero

\* One complete value followed by one more byte.
TrailingInputs ==
    {Encode(v) \o <<c>> : v \in Atoms \cup Nested, c \in {bDelim, ChZero, 97}}

\* What a parsePeersField that has not returned has returned.
NoPeers == [err |-> TRUE, panic |-> FALSE, peers |-> <<>>]

\* A caller that has made no call yet.
BencCaller(kind, val, bytes, pc) ==
    [kind |-> kind, val |-> val, bytes |-> bytes, pc |-> pc, dec |-> DecErr,
     out |-> <<>>, parser |-> [err |-> TRUE, data |-> <<>>],
     metainfo |-> NoMetainfo, peers |-> NoPeers]

BencInit ==
    \/ benc \in {BencCaller("value", v, <<>>, "encode") :
                    v \in Values \cup {ExampleValue}}
    \/ benc \in {BencCaller("integer", IntVal(0), b, "decode") :
                    b \in IntegerInputs}
    \/ benc \in {BencCaller("trailing", IntVal(0), b, "decode") :
                    b \in TrailingInputs}
    \/ benc = BencCaller("example", IntVal(0), ExampleBytes, "decode")

\* Encoder.Encode of the value; for a dictionary, with the range over the
\* map yielding the keys in the given order.
BencEncode(order) ==
    /\ bencPc = "encode"
    /\ benc' = [benc EXCEPT
                   !.bytes = IF bencVal.t = "dict"
                             THEN encodeDict(bencVal.v, order)
                             ELSE Encode(bencVal),
                   !.pc = "decode"]
    /\ UNCHANGED nonBencVars

\* NewDecoder(r).Decode() on the bytes.
BencDecode ==
    /\ bencPc = "decode"
    /\ LET decoded == Decode(bencBytes)
       IN benc' = [benc EXCEPT
                      !.dec = decoded,
                      !.pc = IF decoded.err THEN "failed" ELSE "decoded"]
    /\ UNCHANGED nonBencVars

\* Encoder.Encode of the decoded value.
BencReencode ==
    /\ bencPc = "decoded"
    /\ benc' = [benc EXCEPT !.out = Encode(bencDec.val), !.pc = "reencoded"]
    /\ UNCHANGED nonBencVars

\* ParseMetainfo's newParser on the bytes.
BencNewParser ==
    /\ bencPc \in {"decoded", "failed"}
    /\ benc' = [benc EXCEPT !.parser = newParser(bencBytes), !.pc = "parsed"]
    /\ UNCHANGED nonBencVars

\* The orders the range over the map handed to Encode may take.
KeyOrders == Orders(IF bencVal.t = "dict" THEN DOMAIN bencVal.v ELSE {})

BencNext ==
    \/ \E order \in KeyOrders : BencEncode(order)
    \/ BencDecode
    \/ BencReencode
    \/ BencNewParser

(***************************************************************************)
(* The metainfo parser                                                     *)
(***************************************************************************)

\* The keys the parser looks up.
KeyInfo == <<105, 110, 102, 111>>                             \* "info"
KeyAnnounce == <<97, 110, 110, 111, 117, 110, 99, 101>>       \* "announce"
KeyAnnounceList == KeyAnnounce \o <<45, 108, 105, 115, 116>>  \* "announce-list"
KeyLength == <<108, 101, 110, 103, 116, 104>>                 \* "length"
KeyPieceLength == <<112, 105, 101, 99, 101, 32>> \o KeyLength \* "piece length"
KeyPieces == <<112, 105, 101, 99, 101, 115>>                  \* "pieces"
KeyFiles == <<102, 105, 108, 101, 115>>                       \* "files"
KeyPath == <<112, 97, 116, 104>>                              \* "path"

Int64Bits == 4         \* the bits of an int64 and of a uint64, scaled down
MaxUrls == 2           \* most elements of a tier
MaxFiles == 3          \* most entries of a files list
MaxPath == 2           \* most elements of a path

MaxInt64 == Pow2(Int64Bits - 1) - 1
Uint64Mod == Pow2(Int64Bits)

\* sha1.Sum, as a digest of every byte and of its position: the polynomial
\* of the bytes in 31, modulo a prime.
DigestMod == Pow2(15) - 19
RECURSIVE Pow31(_)
Pow31(n) ==
    IF n = 0 THEN 1
    ELSE LET h == Pow31(QuoT(n, 2))
         IN (((h * h) % DigestMod) * (IF RemT(n, 2) = 1 THEN 31 ELSE 1))
                % DigestMod
RECURSIVE Sha1Sum(_)
Sha1Sum(b) ==
    IF b = <<>> THEN 0
    ELSE IF Len(b) = 1 THEN b[1] + 1
    ELSE LET h == QuoT(Len(b), 2)
         IN (Sha1Sum(SubSeq(b, 1, h)) * Pow31(Len(b) - h)
                + Sha1Sum(SubSeq(b, h + 1, Len(b)))) % DigestMod

\* m[key].(T): the value under the key, if it has the dynamic type t.
Has(m, key, t) == key \in DOMAIN m /\ m[key].t = t

stringFrom(m, key) ==
    IF Has(m, key, "str") THEN [v |-> m[key].v, ok |-> TRUE]
    ELSE [v |-> <<>>, ok |-> FALSE]

intFrom(m, key) ==
    IF Has(m, key, "int") THEN [v |-> m[key].v, ok |-> TRUE]
    ELSE [v |-> 0, ok |-> FALSE]

\* computeInfoHash with the enclosing d and e left out of the bytes hashed.
computeInfoHashEntries(raw) ==
    Sha1Sum(encodeEntries(raw, sortStrings(SomeOrder(DOMAIN raw))))

\* computeInfoHash: the digest of the encoder's output for the dictionary.
computeInfoHash(raw) == Sha1Sum(Encode(DictVal(raw)))

parsePieceLength(raw) ==
    LET pl == intFrom(raw, KeyPieceLength)
    IN IF ~pl.ok THEN [err |-> TRUE, v |-> 0]
       ELSE IF pl.v <= 0 THEN [err |-> TRUE, v |-> 0]
       ELSE [err |-> FALSE, v |-> pl.v]

\* parsePieces: the number of hashes in the string.
parsePieces(raw) ==
    LET s == stringFrom(raw, KeyPieces)
    IN IF ~s.ok THEN [err |-> TRUE, n |-> 0]
       ELSE IF RemT(Len(s.v), Sha1Size) # 0 THEN [err |-> TRUE, n |-> 0]
       ELSE [err |-> FALSE, n |-> QuoT(Len(s.v), Sha1Size)]

\* What parseFilesSection returns: Files (nil, or a list), the total, err.
FilesErr == [err |-> TRUE, nil |-> TRUE, files |-> <<>>, total |-> 0]
FilesOk(nil, flist, total) ==
    [err |-> FALSE, nil |-> nil, files |-> flist, total |-> total]

\* parseMultiFiles, the loop over the path elements.
RECURSIVE parsePath(_, _)
parsePath(pathAny, path) ==
    IF pathAny = <<>> THEN [err |-> FALSE, path |-> path]
    ELSE IF Head(pathAny).t # "str" THEN [err |-> TRUE, path |-> <<>>]
    ELSE parsePath(Tail(pathAny), Append(path, Head(pathAny).v))

\* parseMultiFiles, the loop over the entries, with the list and the total
\* built so far; the total is a uint64.
RECURSIVE parseEntries(_, _, _)
parseEntries(filesAny, flist, total) ==
    IF filesAny = <<>> THEN FilesOk(FALSE, flist, total)
    ELSE LET fe == Head(filesAny)
             length == intFrom(fe.v, KeyLength)
             path == parsePath(fe.v[KeyPath].v, <<>>)
         IN IF fe.t # "dict" THEN FilesErr
            ELSE IF ~length.ok \/ length.v < 0 THEN FilesErr
            ELSE IF ~Has(fe.v, KeyPath, "list") THEN FilesErr
            ELSE IF Len(fe.v[KeyPath].v) = 0 THEN FilesErr
            ELSE IF path.err THEN FilesErr
            ELSE parseEntries(Tail(filesAny),
                              Append(flist, [length |-> length.v,
                                             path |-> path.path]),
                              (total + length.v) % Uint64Mod)

parseMultiFiles(filesAny) == parseEntries(filesAny, <<>>, 0)

parseFilesSection(raw) ==
    IF Has(raw, KeyFiles, "list") THEN parseMultiFiles(raw[KeyFiles].v)
    ELSE LET l == intFrom(raw, KeyLength)
         IN IF ~l.ok \/ l.v < 0 THEN FilesErr
            ELSE FilesOk(TRUE, <<>>, l.v)

\* What parseInfoDict returns: the Info, the total size, err.
InfoErr ==
    [err |-> TRUE, hash |-> 0, nil |-> TRUE, files |-> <<>>, pieces |-> 0,
     total |-> 0]

parseInfoDict(data) ==
    LET raw == data[KeyInfo].v
        pieceLength == parsePieceLength(raw)
        parsed == parsePieces(raw)
        section == parseFilesSection(raw)
    IN IF ~Has(data, KeyInfo, "dict") THEN InfoErr
       ELSE IF pieceLength.err THEN InfoErr
       ELSE IF parsed.err THEN InfoErr
       ELSE IF section.err THEN InfoErr
       ELSE [err |-> FALSE, hash |-> computeInfoHash(raw),
             nil |-> section.nil, files |-> section.files,
             pieces |-> parsed.n, total |-> section.total]

\* The loop over the elements of one tier without the check of seen.
RECURSIVE tierURLsSeenTwice(_, _)
tierURLsSeenTwice(lst, urls) ==
    IF lst = <<>> THEN urls
    ELSE LET u == Head(lst)
         IN IF u.t # "str" \/ u.v = <<>>
            THEN tierURLsSeenTwice(Tail(lst), urls)
            ELSE tierURLsSeenTwice(Tail(lst), Append(urls, u.v))

\* parseAnnounceURLs, the loop over the elements of one tier.
RECURSIVE tierURLs(_, _)
tierURLs(lst, urls) ==
    IF lst = <<>> THEN urls
    ELSE LET u == Head(lst)
         IN IF u.t # "str" \/ u.v = <<>> THEN tierURLs(Tail(lst), urls)
            ELSE IF \E i \in DOMAIN urls : urls[i] = u.v
            THEN tierURLs(Tail(lst), urls)
            ELSE tierURLs(Tail(lst), Append(urls, u.v))

\* parseAnnounceURLs, the loop over the tiers.
RECURSIVE listURLs(_, _)
listURLs(al, urls) ==
    IF al = <<>> THEN urls
    ELSE IF Head(al).t # "list" THEN listURLs(Tail(al), urls)
    ELSE listURLs(Tail(al), tierURLs(Head(al).v, urls))

parseAnnounceURLs(data) ==
    LET urls == IF Has(data, KeyAnnounceList, "list")
                THEN listURLs(data[KeyAnnounceList].v, <<>>)
                ELSE <<>>
        a == stringFrom(data, KeyAnnounce)
    IN IF Len(urls) = 0 /\ a.ok /\ a.v # <<>> THEN <<a.v>> ELSE urls

\* parser.parse.
parse(data) ==
    LET info == parseInfoDict(data)
    IN IF info.err THEN NoMetainfo
       ELSE [err |-> FALSE, hash |-> info.hash,
             urls |-> parseAnnounceURLs(data),
             mode |-> IF ~info.nil THEN "multiple" ELSE "single",
             size |-> info.total, files |-> info.files,
             pieces |-> info.pieces]

\* A dictionary of one key, and of one optional key.
Entry(k, v) == [x \in {k} |-> v]
Opt(k, vs) == {<<>>} \cup {Entry(k, v) : v \in vs}

\* The inputs of the parser: the announce keys of a metainfo ...
UrlA == <<97>>
UrlB == <<200>>
TierElems == {StrVal(<<>>), StrVal(UrlA), StrVal(UrlB)}
TierValues ==
    {ListVal(l) : l \in SeqsUpTo(TierElems, MaxUrls)}
        \cup {IntVal(0), ListVal(<<IntVal(0), StrVal(UrlA)>>)}
AnnounceLists ==
    {ListVal(<<>>), StrVal(UrlA)}
        \cup {ListVal(<<t>>) : t \in TierValues}
        \cup {ListVal(<<t, u>>) : t \in TierValues, u \in TierValues}
Announces == {StrVal(<<>>), StrVal(UrlB), IntVal(0)}

\* ... its info dictionary of one file ...
PiecesValues ==
    {StrVal(<<>>), StrVal(<<97>>), StrVal([i \in 1..Sha1Size |-> 97]),
     IntVal(0)}
Lengths == {0, MaxInt64}
SingleInfos ==
    {pl @@ ps @@ l :
        pl \in Opt(KeyPieceLength, {IntVal(0), IntVal(1), StrVal(<<>>)}),
        ps \in Opt(KeyPieces, PiecesValues),
        l \in Opt(KeyLength, {IntVal(n) : n \in Lengths \cup {-1}}
                                 \cup {StrVal(<<>>)})}

\* ... and of several: entries the parser accepts, and entries of every
\* shape in one place among them.
PathElems == {StrVal(<<>>), StrVal(UrlA), IntVal(0)}
PathValues ==
    {ListVal(l) : l \in SeqsUpTo(PathElems, MaxPath)} \cup {StrVal(UrlA)}
GoodEntries ==
    {DictVal(Entry(KeyLength, IntVal(n))
                @@ Entry(KeyPath, ListVal(<<StrVal(UrlA)>>))) :
        n \in Lengths}
FileEntries ==
    {DictVal(l @@ Entry(KeyPath, ListVal(<<StrVal(UrlA)>>))) :
        l \in Opt(KeyLength, {IntVal(-1), StrVal(<<>>)})}
        \cup {DictVal(Entry(KeyLength, IntVal(1)) @@ p) :
                 p \in Opt(KeyPath, PathValues)}
        \cup {IntVal(0)}
FileLists ==
    {<<>>} \cup
    UNION {{[i \in 1..n |-> IF i = k THEN e ELSE g[i]] :
               g \in [1..n -> GoodEntries], e \in FileEntries, k \in 1..n} :
           n \in 1..MaxFiles}
    \cup UNION {[1..n -> GoodEntries] : n \in 1..MaxFiles}
GoodSingle ==
    Entry(KeyPieceLength, IntVal(1)) @@ Entry(KeyPieces, StrVal(<<>>))
MultiInfos ==
    {GoodSingle @@ Entry(KeyFiles, ListVal(fl)) : fl \in FileLists}
        \cup {GoodSingle @@ Entry(KeyFiles, v) @@ l :
                 v \in {StrVal(<<>>), ListVal(<<>>)},
                 l \in Opt(KeyLength, {IntVal(1)})}

MetaValues ==
    {DictVal(Entry(KeyInfo, DictVal(GoodSingle @@ Entry(KeyLength, IntVal(1))))
                @@ a @@ al) :
        a \in Opt(KeyAnnounce, Announces),
        al \in Opt(KeyAnnounceList, AnnounceLists)}
    \cup {DictVal(Entry(KeyInfo, DictVal(info))
                     @@ Entry(KeyAnnounce, StrVal(UrlB))) :
             info \in SingleInfos \cup MultiInfos}
    \cup {DictVal(Entry(KeyAnnounce, StrVal(UrlB))),
          DictVal(Entry(KeyInfo, StrVal(<<>>))),
          ListVal(<<>>)}

\* A reader holding the encoding of one of the values.
MetaInit ==
    benc \in {BencCaller("metainfo", v, Encode(v), "read") : v \in MetaValues}

\* ParseMetainfo(r): newParser, then parse.
ParseMetainfo ==
    /\ bencPc = "read"
    /\ LET p == newParser(bencBytes)
       IN benc' = [benc EXCEPT
                      !.parser = p,
                      !.metainfo = IF p.err THEN NoMetainfo
                                   ELSE parse(p.data),
                      !.pc = "returned"]
    /\ UNCHANGED nonBencVars

MetaNext == ParseMetainfo

(***************************************************************************)
(* The peers of an HTTP tracker's response                                 *)
(***************************************************************************)

KeyPeers == <<112, 101, 101, 114, 115>>     \* "peers"
KeyPeerIP == <<105, 112>>                    \* "ip"
KeyPeerPort == <<112, 111, 114, 116>>        \* "port"
ChDot == 46                                  \* '.'
MaxPort == 65535
MaxOctet == 255
strideIPV4 == 6

MaxEntries == 2        \* most entries of a list of peer dictionaries

\* strings.Split(s, "."): the fields between the dots.
RECURSIVE Fields(_)
Fields(s) ==
    LET i == IndexByte(s, ChDot)
    IN IF i = 0 THEN <<s>>
       ELSE <<SubSeq(s, 1, i - 1)>> \o Fields(SubSeq(s, i + 1, Len(s)))

\* One field of a dotted quad: decimal digits, no leading zero, at most 255.
IsOctet(f) ==
    /\ f # <<>>
    /\ Len(f) <= 3
    /\ \A i \in DOMAIN f : IsDigit(f[i])
    /\ Len(f) > 1 => f[1] # ChZero
    /\ DigitsValue(f) <= MaxOctet

\* net.ParseIP on the text of an IPv4 address: the four octets, or nil
\* (the empty sequence) for any other text.
ParseIP(s) ==
    LET fs == Fields(s)
    IN IF Len(fs) = 4 /\ \A i \in 1..4 : IsOctet(fs[i])
       THEN [i \in 1..4 |-> DigitsValue(fs[i])]
       ELSE <<>>

\* What parsePeersField and the functions it calls return.
PeersErr == [err |-> TRUE, panic |-> FALSE, peers |-> <<>>]
PeersPanic == [err |-> FALSE, panic |-> TRUE, peers |-> <<>>]
PeersOk(ps) == [err |-> FALSE, panic |-> FALSE, peers |-> ps]

\* parseDictPeers from entry i on: an entry that is not a dictionary, whose
\* ip is not a string ParseIP accepts, or whose port is not an integer of
\* 1..65535, ends the parse with an error.
RECURSIVE parseDictPeersFrom(_, _, _)
parseDictPeersFrom(list, i, out) ==
    IF i > Len(list) THEN PeersOk(out)
    ELSE LET it == list[i]
             m == it.v
             ip == IF Has(m, KeyPeerIP, "str") THEN ParseIP(m[KeyPeerIP].v)
                   ELSE <<>>
         IN IF it.t # "dict" THEN PeersErr
            ELSE IF ip = <<>> THEN PeersErr
            ELSE IF \/ ~Has(m, KeyPeerPort, "int")
                    \/ m[KeyPeerPort].v < 1
                    \/ m[KeyPeerPort].v > MaxPort
            THEN PeersErr
            ELSE parseDictPeersFrom(list, i + 1,
                     Append(out, [ip |-> ip, port |-> m[KeyPeerPort].v]))

\* parseDictPeers with the malformed entries left out.
RECURSIVE parseDictPeersSkip(_)
parseDictPeersSkip(list) ==
    IF list = <<>> THEN PeersOk(<<>>)
    ELSE LET one == parseDictPeersFrom(<<Head(list)>>, 1, <<>>)
         IN PeersOk(one.peers \o parseDictPeersSkip(Tail(list)).peers)

parseDictPeers(list) == parseDictPeersFrom(list, 1, <<>>)

\* parseCompactPeers: the bytes cut to whole entries; with one entry or
\* more, the first assignment goes through the nil pointer peer.
parseCompactPeers(b) ==
    IF Len(b) \div strideIPV4 = 0 THEN PeersOk(<<>>) ELSE PeersPanic

\* parsePeersAny: a byte string is a compact list, a list is a list of
\* dictionaries, anything else is an error.
parsePeersAny(v) ==
    CASE v.t = "str" -> parseCompactPeers(v.v)
      [] v.t = "list" -> parseDictPeers(v.v)
      [] OTHER -> PeersErr

\* parsePeersField, for a response without the peers6 key.
parsePeersField(d) ==
    IF KeyPeers \in DOMAIN d THEN parsePeersAny(d[KeyPeers]) ELSE PeersOk(<<>>)

\* The texts of the ip of a peer dictionary.
GoodIP == <<49, ChDot, 50, ChDot, 51, ChDot, 52>>           \* "1.2.3.4"
OtherIP == <<50, 53, 53, ChDot, 48, ChDot, 48, ChDot, 57>>  \* "255.0.0.9"
BadIPs ==
    {<<>>, <<49, ChDot, 50, ChDot, 51>>,                    \* "1.2.3"
     <<50, 53, 54, ChDot, 48, ChDot, 48, ChDot, 57>>,       \* "256.0.0.9"
     <<49, ChDot, ChDot, 51, ChDot, 52>>}                   \* "1..3.4"

PeerDict(ip, port) ==
    DictVal([k \in {KeyPeerIP, KeyPeerPort} |->
                IF k = KeyPeerIP THEN ip ELSE port])

\* Well-formed entries, and entries malformed in one way each.
GoodPeers ==
    {PeerDict(StrVal(GoodIP), IntVal(1)),
     PeerDict(StrVal(OtherIP), IntVal(MaxPort))}
BadPeers ==
    {IntVal(0), StrVal(GoodIP)}
        \cup {PeerDict(StrVal(ip), IntVal(1)) : ip \in BadIPs}
        \cup {PeerDict(IntVal(1), IntVal(1))}
        \cup {PeerDict(StrVal(GoodIP), port) :
                 port \in {IntVal(0), IntVal(-1), IntVal(MaxPort + 1),
                           StrVal(<<49>>)}}
        \cup {DictVal(Entry(KeyPeerIP, StrVal(GoodIP))),
              DictVal(Entry(KeyPeerPort, IntVal(1)))}

\* The values of the peers key: lists of entries, a compact string, an
\* integer; and a response without the key.
PeersValues ==
    {ListVal(l) : l \in SeqsUpTo(GoodPeers \cup BadPeers, MaxEntries)}
        \cup {StrVal(<<>>), StrVal(<<1, 2, 3, 4, 0, 1>>), IntVal(0)}

Responses == {<<>>} \cup {Entry(KeyPeers, v) : v \in PeersValues}

\* A decoded announce response on which parsePeersField is about to be
\* called.
PeersInit ==
    benc \in {BencCaller("response", DictVal(d), <<>>, "read") :
                 d \in Responses}

\* parseAnnounceResponse: the call of parsePeersField.
ParsePeersField ==
    /\ bencPc = "read"
    /\ bencKind = "response"
    /\ benc' = [benc EXCEPT !.peers = parsePeersField(bencVal.v),
                            !.pc = "returned"]
    /\ UNCHANGED nonBencVars

PeersNext == ParsePeersField

(***************************************************************************)
(* Specifications                                                          *)
(***************************************************************************)

\* The parts that every specification below starts at rest, and the state
\* with the managers at rest too.
HsRest == hsRemote = <<>> /\ hsPc = "rest" /\ hsResult = "none"
UdpRest == udp = [pc |-> "rest"]
\* A peer manager that was built and not started: no dial worker, no peer.
PeerRest ==
    /\ done = FALSE
    /\ candidatesBuf = <<>>
    /\ peers = <<>>
    /\ sessions = <<>>
    /\ workers = <<>>
    /\ mgrStop = "idle"
\* A tracker manager that was built and not started: no loop, no Stop caller.
TrackerRest == TrackerInitFor({}, {}, {}, {}) /\ left = 1
\* The stats counters before any call of UpdateStats is watched.
StatsRest ==
    /\ uploaded = 0
    /\ downloaded = 0
    /\ updater = [pc |-> "idle", uploaded |-> 0, downloaded |-> 0, left |-> 0]
    /\ statReq = [pc |-> "loadUploaded", uploaded |-> 0, downloaded |-> 0,
                  left |-> 0]
    /\ statCalls = {}
\* The codec with nothing to do.
BencRest == benc = [pc |-> "rest"]
\* A session nobody stops.
StopRest ==
    /\ stopCalls = <<>>
    /\ stopOnce = "fresh"
    /\ pQueue = "open"
    /\ pCloses = NoCloses
\* No bitfield in use.
BfRest ==
    /\ pieces = 0
    /\ pieceBF = <<>>
    /\ bfOp = [op |-> "none", index |-> 0]
\* No manager taken lock by lock.
LkRest == lk = [stop |-> "rest"]
\* No mailbox in use.
MailRest == mail = [pc |-> "rest"]
RestInit ==
    SessInit /\ HsRest /\ UdpRest /\ BencRest /\ StopRest /\ BfRest /\ MailRest
        /\ LkRest
ManagersInit == PeerRest /\ TrackerRest /\ StatsRest

\* The peer manager, with the tracker manager at rest.
PeerSpecInit ==
    PeerInit /\ TrackerRest /\ StatsRest /\ RestInit
PeerSpec == PeerSpecInit /\ [][PeerNext]_vars

\* The tracker manager of one tracker, with the peer manager at rest.
TrackerSpecInit == TrackerInit /\ PeerRest /\ StatsRest /\ RestInit
TrackerSpec == TrackerSpecInit /\ [][TrackerNext]_vars

\* The tracker manager of two trackers, with the peer manager at rest.
TrackersSpecInit == TrackersInit /\ PeerRest /\ StatsRest /\ RestInit
TrackersSpec == TrackersSpecInit /\ [][TrackerNext]_vars

\* The tracker manager of one tracker that returns peers, with the peer
\* manager at rest.  The Go scheduler runs every runnable goroutine, so the
\* loop's own steps are taken when they stay possible; nothing is assumed
\* of the callback, of the host or of the tracker's replies.
SinkSpecInit == SinkInit /\ PeerRest /\ StatsRest /\ RestInit
SinkSpec ==
    /\ SinkSpecInit
    /\ [][SinkNext]_vars
    /\ WF_vars(LoopSleepEnds(1))
    /\ WF_vars(LoopRequest(1))

\* The stats counters of the tracker manager, with an updating host and one
\* announce loop building requests; everything else at rest.
StatsSpecInit == TrackerInit /\ PeerRest /\ StatsInit /\ RestInit
StatsSpec == StatsSpecInit /\ [][StatsNext]_vars

\* One admitted peer session: its reader, its writer, the remote's frames,
\* and the stop signals from outside.
SessSpecInit ==
    ManagersInit /\ SessInit /\ HsRest /\ UdpRest /\ BencRest /\ StopRest /\ SessBfInit
    /\ MailRest /\ LkRest
SessSpec == SessSpecInit /\ [][SessNext]_vars

\* The handshake of one dial, for every answer of the remote.
HsSpecInit ==
    ManagersInit /\ SessInit /\ HsInit /\ UdpRest /\ BencRest /\ StopRest /\ BfRest
    /\ MailRest /\ LkRest
HsSpec == HsSpecInit /\ [][HsNext]_vars

\* One call of UDPTrackerClient.Announce, for every behaviour of the
\* network.  The goroutine making the call is scheduled, and a read of the
\* socket ends at the socket's deadline at the latest, so the call's next
\* step is always taken.
UdpSpecInit ==
    ManagersInit /\ SessInit /\ HsRest /\ UdpInit /\ BencRest /\ StopRest /\ BfRest
    /\ MailRest /\ LkRest
UdpSpec == UdpSpecInit /\ [][UdpNext]_vars /\ WF_vars(UdpNext)

\* The codec on every input: a value to encode, decode and encode again, or
\* bytes to decode and to parse as a metainfo.
BencSpecInit ==
    ManagersInit /\ SessInit /\ HsRest /\ UdpRest /\ BencInit /\ StopRest /\ BfRest
    /\ MailRest /\ LkRest
BencSpec == BencSpecInit /\ [][BencNext]_vars

\* ParseMetainfo on the encoding of every metainfo value.
MetaSpecInit ==
    /\ ManagersInit /\ SessInit /\ HsRest /\ UdpRest /\ MetaInit
    /\ StopRest /\ BfRest
    /\ MailRest /\ LkRest
MetaSpec == MetaSpecInit /\ [][MetaNext]_vars

\* parsePeersField on every response.
PeersSpecInit ==
    /\ ManagersInit /\ SessInit /\ HsRest /\ UdpRest /\ PeersInit
    /\ StopRest /\ BfRest
    /\ MailRest /\ LkRest
PeersSpec == PeersSpecInit /\ [][PeersNext]_vars

\* The mailbox of one peer session, its writer, the ticker and the clock,
\* the parties that put frames and the callers of Stop.
MailSpecInit ==
    /\ ManagersInit /\ SessInit /\ HsRest /\ UdpRest /\ BencRest
    /\ StopRest /\ BfRest /\ MailInit /\ LkRest
MailSpec == MailSpecInit /\ [][MailNext]_vars

\* The peer manager lock by lock, for one address.
LkSpecInit ==
    /\ ManagersInit /\ SessInit /\ HsRest /\ UdpRest /\ BencRest
    /\ StopRest /\ BfRest /\ MailRest /\ LkInit
LkSpec == LkSpecInit /\ [][LkNext]_vars /\ LkFairness

\* A bitfield and the calls made on it, in any order.
BfSpecInit ==
    /\ ManagersInit /\ SessInit /\ HsRest /\ UdpRest /\ BencRest
    /\ StopRest /\ BfInit /\ MailRest /\ LkRest
BfSpec == BfSpecInit /\ [][BfNext]_vars

\* One peer session and the callers of its Stop.  Every goroutine is
\* scheduled; a read or a write of the socket returns (at its deadline at
\* the latest); the writer's select, which chooses at random among the
\* ready channels, does not pass over a closed channel for ever.
StopSpecInit ==
    /\ ManagersInit /\ SessInit /\ HsRest /\ UdpRest /\ BencRest
    /\ StopInit /\ BfRest /\ MailRest /\ LkRest
StopSpec ==
    /\ StopSpecInit
    /\ [][StopNext]_vars
    /\ \A c \in StopCallers4 : WF_vars(StopStep(c))
    /\ WF_vars(ReaderStep)
    /\ WF_vars(WriterStep)
    /\ SF_vars(WrReturns)

(***************************************************************************)
(* Properties of the peer manager                                          *)
(***************************************************************************)

\* admitPeer returned true for session s: the goroutine running its tasks
\* was launched.
Inserted(s) == sessions[s].run # "none"

\* C1: of the sessions that completed a handshake with one address, at most
\* one is inserted into the admission table and gets reader/writer tasks;
\* every other one has its connection closed and never started a task; a
\* table entry is an inserted session of that address.
C1_OneSessionPerAddress ==
    /\ \A s1, s2 \in DOMAIN sessions :
          (s1 # s2 /\ sessions[s1].addr = sessions[s2].addr)
             => ~(Inserted(s1) /\ Inserted(s2))
    /\ \A s \in DOMAIN sessions :
          ~Inserted(s)
             => /\ sessions[s].conn = "closed"
                /\ sessions[s].reader = "none"
                /\ sessions[s].writer = "none"
    /\ \A a \in Addrs :
          peers[a] # NoPeer
             => /\ peers[a] \in DOMAIN sessions
                /\ sessions[peers[a]].addr = a
                /\ Inserted(peers[a])

\* C1 witness: two handshakes with one address completed; one session is in
\* the table with its tasks launched, the other was refused and closed.
C1_Witness ==
    \E s1, s2 \in DOMAIN sessions :
        /\ s1 # s2
        /\ sessions[s1].addr = sessions[s2].addr
        /\ peers[sessions[s1].addr] = s1
        /\ sessions[s1].reader = "running"
        /\ sessions[s2].run = "none"
        /\ sessions[s2].conn = "closed"

\* C2 (as claimed): the admission table never holds more than max_peers
\* sessions.
C2_TableWithinMaxPeers == countPeers <= MaxPeers

\* C3 (as claimed): once removePeer has run for an ended session, its
\* address is no longer a key of the admission table.
C3_RemovedPeerNotInTable ==
    \A s \in DOMAIN sessions :
        sessions[s].run = "done" => ~hasPeer(sessions[s].addr)

\* C4 (as claimed): when Manager.Stop has returned, every dial worker has
\* exited, every session of the table has been signalled to stop, and the
\* reader and the writer of every admitted session have exited.
C4_StopReturnedAllQuiet ==
    mgrStop = "returned" =>
        /\ \A w \in Workers : workers[w].pc = "exited"
        /\ \A a \in Addrs :
              peers[a] # NoPeer =>
                 /\ sessions[peers[a]].stopped
                 /\ sessions[peers[a]].reader = "exited"
                 /\ sessions[peers[a]].writer = "exited"

(***************************************************************************)
(* Properties of the tracker manager                                       *)
(***************************************************************************)

InFlight(t) == loops[t].pc = "announce"

\* C5 (as claimed): a request sent after a failed announce carries the
\* event none.
C5_RetryCarriesNone ==
    \A t \in Watched :
        (InFlight(t) /\ hist[t].retry) => loops[t].event = "none"

\* C5 (amended): a request carries started exactly when no announce of the
\* loop has succeeded yet, so a retry after a failed first announce carries
\* started again and no request after a success does.
C5_StartedUntilFirstSuccess ==
    \A t \in Watched :
        InFlight(t) => (loops[t].event = "started" <=> ~hist[t].succeeded)

\* C5 witness: the retry of a failed first announce is in flight and carries
\* started.
C5_Witness ==
    \E t \in Watched :
        InFlight(t) /\ hist[t].retry /\ loops[t].event = "started"

\* C6 (as claimed): no request carries completed while left > 0, and no
\* more than one request carrying completed is ever sent.
C6_OneCompletedRequest ==
    \A t \in Watched :
        /\ (InFlight(t) /\ loops[t].event = "completed")
              => loops[t].reqLeft = 0
        /\ hist[t].completedReqs <= 1

\* C6 (amended): a request carries completed only when the left it reports
\* is zero, started has got through and no completed announce has succeeded
\* yet; at most one completed announce succeeds, and every request after it
\* carries none.
C6_CompletedUntilSuccess ==
    \A t \in Watched :
        /\ (InFlight(t) /\ loops[t].event = "completed")
              => /\ loops[t].reqLeft = 0
                 /\ hist[t].succeeded
                 /\ hist[t].completedOK = 0
        /\ hist[t].completedOK <= 1
        /\ (InFlight(t) /\ hist[t].completedOK >= 1)
              => loops[t].event = "none"

\* C6 witness: a completed request failed, its retry carried completed
\* again and succeeded, and the next request, with left still zero, carries
\* none.
C6_Witness ==
    \E t \in Watched :
        /\ hist[t].completedReqs >= 2
        /\ hist[t].completedOK = 1
        /\ InFlight(t)
        /\ loops[t].reqLeft = 0
        /\ loops[t].event = "none"

\* C7 (as claimed): a tracker is sent at most one stopped announce over the
\* life of the manager, and exactly one once Start has returned.
C7_OneStoppedPerTracker ==
    \A t \in Watched :
        /\ hist[t].stoppedReqs <= 1
        /\ startPc = "returned" => hist[t].stoppedReqs = 1

\* C8 (as claimed): of all the calls of Manager.Stop at most one issues
\* stopped announces.
C8_StopIdempotent ==
    Cardinality({c \in StopCallers : stoppers[c].sent}) <= 1

\* C9: when a request follows a successful announce, at least
\* max(interval, min_interval) * (1 - jitter_fraction) has elapsed since
\* that announce, interval and min_interval being the values it returned.
C9_MinGapBetweenSuccesses ==
    \A t \in Watched :
        (InFlight(t) /\ hist[t].succeeded)
           => hist[t].elapsed * 100 >=
                 Max(hist[t].respInterval, hist[t].respMin)
                    * (100 - JitterPct)

\* C9 witness: the previous response had min_interval > interval > 0 and
\* the next request goes out exactly at the lower end of the jitter window.
C9_Witness ==
    \E t \in Watched :
        /\ InFlight(t)
        /\ hist[t].succeeded
        /\ hist[t].respInterval > 0
        /\ hist[t].respMin > hist[t].respInterval
        /\ hist[t].elapsed * 100 = hist[t].respMin * (100 - JitterPct)

\* C10: as long as the host has not cancelled the context, no announce
\* failure cancels the errgroup's context, ends a loop or makes Start
\* return: every loop is still requesting, announcing or sleeping.
C10_FailuresDoNotCancel ==
    ~ctxDone =>
        /\ ~grpDone
        /\ startPc = "running"
        /\ \A t \in Trackers : loops[t].pc \in {"request", "announce", "sleep"}

\* C10 witness: tracker 1 has only ever failed and is backing off at the
\* maximum backoff while tracker 2, after a successful announce, is
\* announcing again.
C10_Witness ==
    /\ Trackers = {1, 2}
    /\ ~ctxDone
    /\ ~loops[1].startedSent
    /\ loops[1].pc = "sleep"
    /\ loops[1].backoff = MaxBackoff
    /\ loops[2].startedSent
    /\ loops[2].pc = "announce"

C12_RequestTripleFromOneCall ==
    statReq.pc = "built"
        => <<statReq.uploaded, statReq.downloaded, statReq.left>>
              \in statCalls

\* C13 (as claimed): when the reader's last read timed out with nothing
\* received, the session is closed: the stop signal is set and the reader
\* has exited.
C13_TimeoutClosesSession ==
    rdLast = "timeout" => (pStopped /\ rdPc = "exited")

\* C14 (as claimed): against a remote whose whole answer arrives, Perform
\* succeeds exactly when the remote's pstrlen is not 0 and its info-hash is
\* ours, whatever peer id the remote sends (NewPeer pins no peer id).
C14_HandshakeIgnoresPeerID ==
    (hsPc = "done" /\ hsResult # "write error" /\ hsRemote.cut = 0)
        => (hsResult = "nil"
               <=> (Len(hsRemote.Pstr) # 0
                       /\ hsRemote.InfoHash = OurInfoHash))

\* C15 (as claimed): when Announce has failed after the tracker replied with
\* action 3 to a connect or an announce packet, the error it returns
\* carries the message of such a reply.
C15_ErrorReplySurfaced ==
    (udpPc = "returned" /\ udpResult.err # "nil" /\ udpObs.errMsgs # {})
        => udpResult.msg \in udpObs.errMsgs

Decoded == bencPc \in {"decoded", "reencoded"} \/ (bencPc = "parsed" /\ ~bencDec.err)

\* C17: for the bytes B the encoder produces from a value built of byte
\* strings, integers, lists and dictionaries, decoding B succeeds and
\* encoding the result yields exactly B; decoding d3:bar4:spam3:fooi42ee
\* gives {bar: spam, foo: 42} and encoding that gives the same bytes back.
C17_RoundTrip ==
    /\ (bencKind \in {"value", "example"}) => bencPc # "failed"
    /\ (bencKind = "value" /\ bencPc = "reencoded") => bencOut = bencBytes
    /\ (bencKind = "example" /\ Decoded) => bencDec.val = ExampleValue
    /\ (bencKind = "example" /\ bencPc = "reencoded") => bencOut = ExampleBytes

\* The dictionary {a: -1} went the whole way round, as d1:ai-1ee.
C17_Witness ==
    /\ bencKind = "value"
    /\ bencVal = DictVal([k \in {<<97>>} |-> IntVal(-1)])
    /\ bencPc = "reencoded"
    /\ bencOut = bencBytes
    /\ bencOut = <<bDict, ChZero + 1, ChColon, 97, bInteger, ChMinus,
                   ChZero + 1, bDelim, bDelim>>

\* The keys of the entries written in b after the dictionary's first byte,
\* in the order they are written: each entry is a string and a value.
RECURSIVE entryKeys(_)
entryKeys(b) ==
    IF b = <<>> \/ b[1] = bDelim THEN <<>>
    ELSE LET key == decodeString(b)
             val == Decode(key.rest)
         IN <<key.val.v>> \o entryKeys(val.rest)

emittedKeys(b) == entryKeys(Tail(b))

\* Each key is below the next one, byte by byte.
Ascending(keys) ==
    \A i \in 1..(Len(keys) - 1) : StrLess(keys[i], keys[i + 1])

\* Encode was called with a dictionary of two keys or more.
EncodedDict ==
    /\ bencKind = "value"
    /\ bencVal.t = "dict"
    /\ Cardinality(DOMAIN bencVal.v) >= 2
    /\ bencPc # "encode"

\* C18: for a dictionary with two or more keys, whatever order the map
\* yields its keys in, the bytes the encoder writes hold every key once, in
\* strictly ascending order of their raw bytes.
C18_KeysAscending ==
    EncodedDict =>
        LET keys == emittedKeys(bencBytes)
        IN /\ Len(keys) = Cardinality(DOMAIN bencVal.v)
           /\ {keys[i] : i \in DOMAIN keys} = DOMAIN bencVal.v
           /\ Ascending(keys)

\* The map yielded the keys "\310" and "a\310" of a dictionary in descending
\* order, and the bytes written hold "a\310" first.
C18_Witness ==
    /\ EncodedDict
    /\ DOMAIN bencVal.v = {<<200>>, <<97, 200>>}
    /\ bencBytes = encodeDict(bencVal.v, <<<<200>>, <<97, 200>>>>)
    /\ emittedKeys(bencBytes) = <<<<97, 200>>, <<200>>>>

\* The bytes between the i and the e of an integer.
Mantissa(b) == SubSeq(b, 2, Len(b) - 1)

\* C19: decoding an integer whose mantissa has a leading zero before more
\* digits (i03e), is -0 (i-0e) or is empty (ie) fails, and no value is
\* returned.
C19_BadIntegerRejected ==
    (bencKind = "integer" /\ BadMantissa(Mantissa(bencBytes))
        /\ bencPc # "decode")
    => (bencDec.err /\ ~Decoded)

\* C20: a top-level decode of one complete value followed by at least one
\* more byte fails, and newParser on such bytes returns no parser.
C20_TrailingDataRejected ==
    bencKind = "trailing" =>
        /\ ~Decoded
        /\ bencPc = "parsed" => bencParser.err

(***************************************************************************)
(* Properties of the tracker transports                                    *)
(***************************************************************************)

\* A goroutine of caller c of Manager.Stop makes its stopped announce on
\* tracker t in this step.
StopAnnounces(c, t) ==
    /\ stoppers[c].pc = "sending"
    /\ t \in stoppers[c].pending
    /\ t \notin stoppers'[c].pending

\* C28: at most one Announce call is in flight on a tracker's transport at
\* any time: Manager.Stop does not call Announce on a tracker while the
\* announce loop's call on that tracker has not returned.
C28_OneAnnounceInFlight ==
    [][\A c \in StopCallers : \A t \in Trackers :
          StopAnnounces(c, t) => ~InFlight(t)]_vars

(***************************************************************************)
(* Properties of one peer session                                          *)
(***************************************************************************)

\* C27: however the Stop calls of the reader, the writer, removePeer and
\* Manager.Stop interleave, the stop channel, the socket and the mailbox
\* are never closed twice and are each closed once when a Stop has
\* returned; and once a Stop has begun, the reader and the writer both
\* exit.
C27_StopOnce ==
    /\ [](\A r \in DOMAIN pCloses : pCloses[r] <= 1)
    /\ []((\E c \in DOMAIN stopCalls : stopCalls[c] = "returned")
            => \A r \in DOMAIN pCloses : pCloses[r] = 1)
    /\ (stopOnce # "fresh") ~> (rdPc = "exited" /\ wrPc = "exited")

\* The four callers have all returned from Stop and both tasks have exited.
C27_Witness ==
    /\ \A c \in StopCallers4 : stopCalls[c] = "returned"
    /\ DOMAIN stopCalls = StopCallers4
    /\ pCloses = [stopped |-> 1, conn |-> 1, queue |-> 1]
    /\ rdPc = "exited"
    /\ wrPc = "exited"

\* A step of the reader that read a keep-alive frame.
KeepAliveRead == rdPc = "read" /\ rdPc' = "select" /\ rdLast' = "keepalive"

\* C29: a session starts with the remote choking and not interested and the
\* local side choking and not interested; the remote's two flags are what
\* the last Choke/Unchoke and the last Interested/NotInterested frame made
\* them, no frame changes the local flags, and a keep-alive frame changes no
\* flag and no bit of the remote bitfield.
C29_FlagsFollowFrames ==
    /\ [](/\ peerChoking = (rdFrames.choke # "unchoke")
          /\ peerInterested = (rdFrames.interest = "interested")
          /\ amChoking = TRUE
          /\ amInterested = FALSE)
    /\ [][KeepAliveRead =>
            UNCHANGED <<peerChoking, peerInterested, amChoking, amInterested,
                        pieceBF>>]_vars

\* The remote unchoked after choking, withdrew its interest after declaring
\* it, announced a piece, and the last frame read was a keep-alive.
C29_Witness ==
    /\ rdFrames = [choke |-> "unchoke", interest |-> "notInterested"]
    /\ ~peerChoking
    /\ ~peerInterested
    /\ rdLast = "keepalive"
    /\ Count(pieceBF) = 1

\* C30: the remote bitfield of a session always has the length of the
\* bitfield of the torrent's piece count: a Bitfield frame of another
\* length is not adopted.
C30_BitfieldLengthKept == BfLen(pieceBF) = BfLen(New(pieces))


(***************************************************************************)
(* Properties of the bitfield                                              *)
(***************************************************************************)

\* The indices of the bits the storage of bf holds.
BitIndexes(bf) == 0..(BfLen(bf) - 1)

\* C25: for a bitfield of n bits and i in [0, n), after SetBit(i) HasBit(i)
\* is true, HasBit(j) is what it was for every j # i, and Count() is the
\* number of indices whose bit is set.
C25_SetBitFrame ==
    [][(bfOp'.op = "set" /\ bfOp'.index \in 0..(pieces - 1))
        => /\ HasBit(pieceBF', bfOp'.index)
           /\ \A j \in (BitIndexes(pieceBF) \cup BfIndexes(pieces, pieceBF))
                        \ {bfOp'.index} :
                 HasBit(pieceBF', j) = HasBit(pieceBF, j)
           /\ Count(pieceBF') =
                 Cardinality({j \in BitIndexes(pieceBF') :
                                 HasBit(pieceBF', j)})]_vars

\* SetBit(8) was the last call on a bitfield of 9 bits that had bit 0 set:
\* both are set now, and nothing else.
C25_Witness ==
    /\ pieces = 9
    /\ bfOp = [op |-> "set", index |-> 8]
    /\ pieceBF = <<128, 128>>
    /\ Count(pieceBF) = 2

\* C26: for a bitfield created with New(n), after any calls of SetBit and
\* ClearBit, with indices in and out of range, every bit at a position
\* >= n is zero.
C26_BitsBeyondStayZero ==
    \A j \in BitIndexes(pieceBF) : j >= pieces => ~HasBit(pieceBF, j)


\* An announce packet has been sent.
AnnounceSent == udpObs.annAge >= 0

\* C33 (as stated): an announce packet carries a connection id obtained
\* from a connect exchange less than 60 s earlier, and none is sent between
\* a reply with a wrong action or transaction id and the next connect
\* exchange.
C33_IdYoungerThanTTL ==
    /\ udpObs.annAge < connectionIDTTL
    /\ ~udpObs.annAfterMismatch

\* C33 (amended): an announce packet carries a connection id obtained at
\* most 60 s earlier (an id exactly 60 s old is still used), and none is
\* sent between a reply with a wrong action or transaction id and the next
\* successful connect exchange; an attempt that starts with an expired or
\* forgotten id starts with the connect packet.
C33_IdAtMostTTLOld ==
    /\ udpObs.annAge <= connectionIDTTL
    /\ ~udpObs.annAfterMismatch
    /\ (udpPc = "announceSend" => udpNow <= udpTTL /\ ~udpObs.mismatch)
    /\ (udpObs.mismatch => udpTTL = ZeroTime)

\* An announce packet went out with the cached id when it was exactly
\* 60 s old; a later attempt ran the connect exchange and sent the announce
\* packet with the new id.
C33_Witness ==
    /\ udpPc = "announceRead"
    /\ udpN > 0
    /\ udpObs.idAt >= 0
    /\ AnnounceSent
    /\ udpObs.annAge = connectionIDTTL

\* An attempt of Announce is under way; its number, counted from 0, is udpN.
AttemptUnderWay == udpPc \in {"connectSend", "connectRead", "announceSend",
                              "announceRead"}

\* C34: one call of Announce makes at most maxRetries = 8 attempts, and
\* attempt k has the socket's deadline at most baseBackoff << k after its
\* start, and not after the caller's deadline.
C34_AtMostMaxRetriesAttempts ==
    /\ [](AttemptUnderWay => udpN + 1 <= maxRetries)
    /\ [][(udpPc = "top" /\ udpPc' # "top" /\ udpPc' # "returned")
            => /\ udpConnDeadline' - udpNow <= baseBackoff * Pow2(udpN)
               /\ udpCall.hasDeadline
                     => udpConnDeadline' <= udpCall.deadline]_vars

\* The announce of tracker t fails in this step, and the loop goes to sleep.
FailureStep(t) ==
    loops[t].pc = "announce" /\ loops'[t].pc = "sleep" /\ hist'[t].retry

\* C35: the first failed announce after the loop's start or after a success
\* is followed by a sleep of jitter(InitialBackoff); each further failure
\* in a row doubles the delay, up to MaxBackoff; a success resets the delay
\* to InitialBackoff.
C35_FirstRetryAfterInitialBackoff ==
    [][\A t \in Watched :
         /\ (FailureStep(t) /\ ~hist[t].retry)
               => loops'[t].sleep = InitialBackoff
         /\ (FailureStep(t) /\ hist[t].retry)
               => loops'[t].sleep = Min(2 * loops[t].backoff, MaxBackoff)
         /\ FailureStep(t) => loops'[t].sleep <= MaxBackoff
         /\ (loops[t].pc = "announce" /\ hist'[t].succeeded /\ ~hist'[t].retry)
               => loops'[t].backoff = InitialBackoff]_vars

\* The announce loop of tracker t sends a request in this step: a regular
\* announce or its stopped announce.
LoopSends(t) ==
    \/ loops[t].pc = "request" /\ loops'[t].pc = "announce"
    \/ loops[t].pc = "sendStopped" /\ loops'[t].pc = "returned"

\* C37: once Manager.closed is true, no announce loop sends a request.
C37_ClosedSuppressesAnnounces ==
    [][closed => \A t \in Trackers : ~LoopSends(t)]_vars

\* Peer.Start has emitted peer_started for session s; the function run by
\* its stopOnce has emitted peer_stopped.
EmittedStarted(s) == sessions[s].run \in {"waiting", "done"}
EmittedStopped(s) == sessions[s].stopped

\* Session s is the admitted session of its address, and a task of it is
\* still running.
AdmittedRunning(s) ==
    /\ peers[sessions[s].addr] = s
    /\ sessions[s].run \in {"spawned", "waiting"}
    /\ ~sessions[s].stopped

\* C39: peer_stopped is emitted only for a session whose peer_started was
\* emitted before, and never for an address whose admitted session is
\* still running.
C39_StoppedOnlyAfterStarted ==
    \A s \in DOMAIN sessions :
        EmittedStopped(s)
            => /\ EmittedStarted(s)
               /\ \A r \in DOMAIN sessions :
                     (r # s /\ sessions[r].addr = sessions[s].addr)
                         => ~AdmittedRunning(r)

(***************************************************************************)
(* Properties of the metainfo parser                                       *)
(***************************************************************************)

\* ParseMetainfo returned a descriptor.
Parsed == bencPc = "returned" /\ ~metainfo.err

\* The info dictionary of the metainfo value the reader holds.
InputInfo == bencVal.v[KeyInfo].v

RECURSIVE Flatten(_)
Flatten(al) ==
    IF al = <<>> THEN <<>>
    ELSE (IF Head(al).t = "list" THEN Head(al).v ELSE <<>>)
            \o Flatten(Tail(al))

\* The non-empty strings of a sequence of values, each at its first
\* occurrence only.
RECURSIVE FirstURLs(_)
FirstURLs(s) ==
    IF s = <<>> THEN <<>>
    ELSE LET before == FirstURLs(SubSeq(s, 1, Len(s) - 1))
             u == s[Len(s)]
         IN IF u.t # "str" \/ u.v = <<>> THEN before
            ELSE IF \E k \in DOMAIN before : before[k] = u.v THEN before
            ELSE Append(before, u.v)

\* C22: when announce-list is present, announce_urls is its tiers flattened
\* in tier order, without the empty strings and with each URL at its first
\* occurrence only: the announce string is used only when announce-list is
\* absent.
C22_AnnounceListOnly ==
    (Parsed /\ Has(bencVal.v, KeyAnnounceList, "list")) =>
        metainfo.urls = FirstURLs(Flatten(bencVal.v[KeyAnnounceList].v))

\* The URLs of the announce-list of the metainfo the reader holds, and the
\* URL of its announce string.
InputListURLs ==
    IF Has(bencVal.v, KeyAnnounceList, "list")
    THEN FirstURLs(Flatten(bencVal.v[KeyAnnounceList].v))
    ELSE <<>>
InputAnnounce ==
    IF Has(bencVal.v, KeyAnnounce, "str") /\ bencVal.v[KeyAnnounce].v # <<>>
    THEN <<bencVal.v[KeyAnnounce].v>>
    ELSE <<>>

\* C22, amended: announce_urls is the tiers of the announce-list flattened
\* in tier order, without the empty strings and with each URL at its first
\* occurrence only; when that leaves no URL (no announce-list, or one
\* without a URL), it is the announce string, if there is a non-empty one.
C22_AnnounceFallback ==
    Parsed =>
        metainfo.urls =
            IF InputListURLs # <<>> THEN InputListURLs ELSE InputAnnounce

\* An announce-list of two tiers of two elements, with an empty string and
\* a URL in both tiers, next to an announce string, gave two URLs.
C22_Witness ==
    /\ Parsed
    /\ InputAnnounce # <<>>
    /\ Has(bencVal.v, KeyAnnounceList, "list")
    /\ Len(Flatten(bencVal.v[KeyAnnounceList].v)) = 4
    /\ bencVal.v[KeyAnnounceList].v[1].v[1] = StrVal(<<>>)
    /\ metainfo.urls = <<UrlB, UrlA>>

\* A file entry the contract refuses: no length or a negative one, no path
\* or an empty one, or a path element that is not a non-empty byte string.
BadEntry(fe) ==
    \/ fe.t # "dict"
    \/ ~Has(fe.v, KeyLength, "int")
    \/ fe.v[KeyLength].v < 0
    \/ ~Has(fe.v, KeyPath, "list")
    \/ fe.v[KeyPath].v = <<>>
    \/ \E k \in DOMAIN fe.v[KeyPath].v :
          \/ fe.v[KeyPath].v[k].t # "str"
          \/ fe.v[KeyPath].v[k].v = <<>>

\* The reader holds a metainfo with a files list.
InputHasFiles ==
    /\ bencVal.t = "dict"
    /\ Has(bencVal.v, KeyInfo, "dict")
    /\ Has(InputInfo, KeyFiles, "list")

\* C23: ParseMetainfo returns an error and no descriptor when an entry of
\* the files list has a negative or missing length, an empty path, or a path
\* element that is not a non-empty byte string.
C23_BadEntryRejected ==
    (/\ bencPc = "returned"
     /\ InputHasFiles
     /\ \E k \in DOMAIN InputInfo[KeyFiles].v :
           BadEntry(InputInfo[KeyFiles].v[k])) =>
        metainfo = NoMetainfo

\* The sum of the lengths of the entries of a files list.
RECURSIVE SumLengths(_)
SumLengths(fl) ==
    IF fl = <<>> THEN 0
    ELSE Head(fl).v[KeyLength].v + SumLengths(Tail(fl))

\* C24: for every metainfo that parses, Mode is multiple exactly when the
\* info dictionary has a files list, and Size is the info length in
\* single-file mode and the sum of the lengths of the files in multi-file
\* mode.
C24_ModeAndSize ==
    Parsed =>
        /\ (metainfo.mode = "multiple") = Has(InputInfo, KeyFiles, "list")
        /\ metainfo.size = IF Has(InputInfo, KeyFiles, "list")
                           THEN SumLengths(InputInfo[KeyFiles].v)
                           ELSE InputInfo[KeyLength].v

(***************************************************************************)
(* Properties of the peers of a tracker's response                         *)
(***************************************************************************)

\* The entries of the response's list of peer dictionaries.
InputEntries == bencVal.v[KeyPeers].v

\* Entry e is well-formed: a dictionary with an ip and a port that
\* parseDictPeers accepts.
WellFormed(e) == ~parseDictPeers(<<e>>).err

\* C38: when the response carries a list of peer dictionaries, the
\* malformed entries are skipped: parsePeersField returns no error, and
\* returns the well-formed entries in their order.
C38_MalformedSkipped ==
    (bencKind = "response" /\ bencPc = "returned"
       /\ Has(bencVal.v, KeyPeers, "list"))
      => /\ ~peersResult.err
         /\ peersResult.peers = parseDictPeersSkip(InputEntries).peers

(***************************************************************************)
(* Properties of the mailbox and its writer                                *)
(***************************************************************************)

\* The mailbox frames written to the socket, in the order of the writes.
IsMailFrame(w) == w.f # KeepAliveFrame
WireFrames == SelectSeq(mailWire, IsMailFrame)

C32_KeepAliveOnlyWhenIdle ==
    \A i \in DOMAIN mailWire :
        mailWire[i].f = KeepAliveFrame
            => \A j \in 1..(i - 1) :
                  mailWire[i].at - mailWire[j].at >= KeepAliveTicks

(***************************************************************************)
(* Properties of the peer manager, lock by lock                            *)
(***************************************************************************)

\* A step that puts a candidate on the queue.
LkPut == lkQueue' = lkQueue + 1

\* The lookup of Enqueue ends.
LkLookedUp == lkEnq = "hasPeer" /\ lkEnq' # "hasPeer"

\* The select of Enqueue has a ready branch in every state.
EnqueueSelectReady == lkEnq = "select" => ENABLED LkEnqSelect

InManagerStop == lkStop \in {"waitWorkers", "rlock", "holds"}
InAdmitPeer(w) == lkWorker[w] = "admitPeer"
InRemovePeer == lkSess \in {"removePeer", "removeHolds"}
InEnqueue == lkEnq \in {"hasPeer", "select"}
InPeerStop(c) == lkCalls[c] \in {"call", "body"}

\* C40: Manager.Stop, admitPeer, removePeer, Enqueue and the Peer.Stop calls
\* (deferred by the reader and by the writer, made by removePeer and by
\* Manager.Stop) return in every interleaving: none of them stays in
\* progress for ever.
C40_NoDeadlock ==
    /\ []<>~InManagerStop
    /\ \A w \in Workers : []<>~InAdmitPeer(w)
    /\ []<>~InRemovePeer
    /\ []<>~InEnqueue
    /\ \A c \in StopCallers3 : []<>~InPeerStop(c)

\* Manager.Stop holds the read lock and waits in Peer.Stop, whose function is
\* being run by a task of the session.
C40_Witness ==
    /\ lkStop = "holds"
    /\ lkMut.r = 1
    /\ lkCalls["managerStop"] = "call"
    /\ lkOnce = "running"
    /\ \E t \in LkTasks : lkCalls[t] = "body"

=============================================================================
